---- MODULE Spec2Model ----
(***************************************************************************)
(* Texas Hold'em engine of Liao1/holdem: the pot manager (pot-manager.ts), *)
(* the betting engine (betting-engine.ts) and the game engine state        *)
(* machine (game-engine.ts).                                               *)
(*                                                                         *)
(* Players are identified by their seat index: the engine builds the      *)
(* players array in seat order (seat i is players[i]) and every list of    *)
(* ids the code derives (eligiblePlayerIds, winners) is a filter of that   *)
(* array, so a list of ids is modelled as the set of its seats and "the    *)
(* first id of the list" is the lowest seat of the set.                    *)
(***************************************************************************)
EXTENDS Integers, Sequences, FiniteSets, TLC

VARIABLES
    state,      \* GameEngine.state : GameState
    running,    \* GameEngine.running
    pc,         \* position of the engine's async control flow
    actingOrder,\* runBettingRound: const actingOrder (sequence of seats)
    cursor,     \* runBettingRound: let cursor
    request,    \* the outstanding onActionRequest call, or NoRequest
    emitted,    \* the snapshots handed to onStateChange by the latest step
    fin,        \* input of the pure function under check
    fout,       \* its result
    fpc         \* "in" before the function is applied, "done" after

vars == <<state, running, pc, actingOrder, cursor, request, emitted, fin, fout, fpc>>

engineVars == <<state, running, pc, actingOrder, cursor, request, emitted>>
fnVars == <<fin, fout, fpc>>

\* ---------------------------------------------------------------- constants

BIG_BLIND == 4
SMALL_BLIND == 2
STARTING_CHIPS == 400

\* ------------------------------------------------------------------- bounds

\* players handed to the pure pot functions
MaxPotPlayers == 3
\* largest totalBetThisHand handed to buildSidePots
MaxTotalBet == 3

\* ------------------------------------------------------------------ helpers

Min(a, b) == IF a <= b THEN a ELSE b
Max(a, b) == IF a >= b THEN a ELSE b

SetMin(S) == CHOOSE x \in S : \A y \in S : x <= y

RECURSIVE SortAsc(_)
SortAsc(S) == IF S = {} THEN <<>>
              ELSE LET m == SetMin(S) IN <<m>> \o SortAsc(S \ {m})

RECURSIVE SumSeq(_)
SumSeq(s) == IF s = <<>> THEN 0 ELSE Head(s) + SumSeq(Tail(s))

RECURSIVE SumOver(_, _)
SumOver(f, S) == IF S = {} THEN 0
                 ELSE LET x == CHOOSE y \in S : TRUE IN f[x] + SumOver(f, S \ {x})

Seats(ps) == DOMAIN ps

\* ---------------------------------------------------------------- pot-manager

sameEligible(a, b) == Cardinality(a) = Cardinality(b) /\ a = b

RECURSIVE MergeFrom(_, _, _)
MergeFrom(merged, ps, i) ==
    IF i > Len(ps) THEN merged
    ELSE LET last == merged[Len(merged)] IN
         IF sameEligible(last.eligiblePlayerIds, ps[i].eligiblePlayerIds)
         THEN MergeFrom([merged EXCEPT ![Len(merged)].amount = @ + ps[i].amount], ps, i + 1)
         ELSE MergeFrom(Append(merged, ps[i]), ps, i + 1)

mergePotsNoMerge(ps) == ps

mergePots(ps) == IF Len(ps) <= 1 THEN ps ELSE MergeFrom(<<ps[1]>>, ps, 2)

\* the players counted in a layer's amount: contributors.length
LayerPayersUnfolded(players, contributors) ==
    {i \in contributors : players[i].status # "FOLDED"}

\* every seat pays every layer
LayerPayersEverySeat(players, contributors) == Seats(players)

LayerPayers(players, contributors) == contributors

\* the layers pushed by the loop of buildSidePots, before merging (the levels
\* are distinct and ascending, so the loop's increment is always positive)
PotLayers(players) ==
    LET bettors == {i \in Seats(players) : players[i].totalBetThisHand > 0}
        betLevels == SortAsc({players[i].totalBetThisHand : i \in bettors})
        layer(k) ==
            LET level == betLevels[k]
                previousLevel == IF k = 1 THEN 0 ELSE betLevels[k - 1]
                contributors == {i \in bettors : players[i].totalBetThisHand >= level}
                eligible == {i \in contributors : players[i].status # "FOLDED"}
            IN [amount |-> (level - previousLevel)
                               * Cardinality(LayerPayers(players, contributors)),
                eligiblePlayerIds |-> eligible]
    IN [k \in 1..Len(betLevels) |-> layer(k)]

buildSidePots(players) == mergePots(PotLayers(players))

PotTotal(ps) == SumSeq([k \in 1..Len(ps) |-> ps[k].amount])

TotalWagered(players) ==
    SumOver([i \in Seats(players) |-> players[i].totalBetThisHand], Seats(players))

\* -------------------------------------------------------------- betting-engine

\* a LegalAction is a record with the fields the code sets: an optional field
\* the code leaves out is absent from the record
Has(r, f) == f \in DOMAIN r

\* legal.f || 0
OrZero(r, f) == IF Has(r, f) THEN r[f] ELSE 0

Types(la) == {la[k].type : k \in 1..Len(la)}

\* legalActions.find(a => a.type === t): the first entry of that type
FindLegal(la, t) == la[SetMin({k \in 1..Len(la) : la[k].type = t})]

\* FOLD is pushed when there is a bet to face
FoldOfferedAlways(amountToCall) == TRUE

FoldOffered(amountToCall) == amountToCall > 0

\* const maxRaiseTotal = player.currentBet + playerChips
MaxRaiseTotalChipsOnly(player) == player.chips

MaxRaiseTotal(player) == player.currentBet + player.chips

AllInOnly(player) ==
    [type |-> "ALL_IN", minAmount |-> player.chips, maxAmount |-> player.chips]

calculateLegalActions(player, gameState) ==
    IF player.status # "ACTIVE" \/ player.chips <= 0 THEN <<>>
    ELSE
    LET amountToCall == gameState.currentBet - player.currentBet
        playerChips == player.chips
        minRaiseTotal == gameState.currentBet + gameState.lastRaiseIncrement
        raiseChipsNeeded == minRaiseTotal - player.currentBet
        raise == [type |-> "RAISE", minAmount |-> minRaiseTotal,
                  maxAmount |-> MaxRaiseTotal(player)]
        fold == IF FoldOffered(amountToCall) THEN <<[type |-> "FOLD"]>> ELSE <<>>
        isPreflopBBOption == gameState.phase = "PRE_FLOP" /\ gameState.currentBet > 0
        minBet == BIG_BLIND
    IN
    IF amountToCall = 0 THEN
        fold \o <<[type |-> "CHECK"]>> \o
        ( IF isPreflopBBOption
          THEN IF playerChips <= raiseChipsNeeded THEN <<AllInOnly(player)>> ELSE <<raise>>
          ELSE IF playerChips <= minBet THEN <<AllInOnly(player)>>
               ELSE <<[type |-> "BET", minAmount |-> minBet, maxAmount |-> playerChips]>> )
    ELSE
        fold \o
        ( IF playerChips <= amountToCall
          THEN <<[type |-> "ALL_IN", minAmount |-> playerChips,
                  maxAmount |-> playerChips, callAmount |-> playerChips]>>
          ELSE <<[type |-> "CALL", callAmount |-> amountToCall]>> \o
               ( IF playerChips > amountToCall
                 THEN IF playerChips < raiseChipsNeeded THEN <<AllInOnly(player)>>
                      ELSE <<raise>>
                 ELSE <<>> ) )

\* Math.min(Math.max(amount, lo), hi)
ClampNoLower(amount, lo, hi) == Min(amount, hi)

Clamp(amount, lo, hi) == Min(Max(amount, lo), hi)

validateAction(action, legalActions, player, gameState) ==
    IF action.type \notin Types(legalActions)
    THEN IF "CHECK" \in Types(legalActions)
         THEN [type |-> "CHECK", amount |-> 0]
         ELSE [type |-> "FOLD", amount |-> 0]
    ELSE
    LET legal == FindLegal(legalActions, action.type)
        clamped == Clamp(action.amount, OrZero(legal, "minAmount"), OrZero(legal, "maxAmount"))
    IN CASE action.type \in {"FOLD", "CHECK"} -> [type |-> action.type, amount |-> 0]
         [] action.type = "CALL" -> [type |-> "CALL", amount |-> OrZero(legal, "callAmount")]
         [] action.type = "BET" ->
                IF clamped >= player.chips
                THEN [type |-> "ALL_IN", amount |-> player.chips]
                ELSE [type |-> "BET", amount |-> clamped]
         [] action.type = "RAISE" ->
                IF clamped - player.currentBet >= player.chips
                THEN [type |-> "ALL_IN", amount |-> player.chips]
                ELSE [type |-> "RAISE", amount |-> clamped]
         [] action.type = "ALL_IN" -> [type |-> "ALL_IN", amount |-> player.chips]
         [] OTHER -> [type |-> "FOLD", amount |-> 0]

\* ------------------------------------------------------------ hand comparison

\* a.values[i] ?? 0
ValueAt(v, i) == IF i <= Len(v) THEN v[i] ELSE 0

\* compareEvaluatedHands on the hands' values arrays: values[0] is the
\* HandRank (lower is better), the later values are higher-is-better
RECURSIVE CompareFrom(_, _, _)
CompareFrom(a, b, i) ==
    IF i > Max(Len(a), Len(b)) THEN 0
    ELSE IF ValueAt(a, i) # ValueAt(b, i)
         THEN IF i = 1 THEN ValueAt(b, i) - ValueAt(a, i)
              ELSE ValueAt(a, i) - ValueAt(b, i)
         ELSE CompareFrom(a, b, i + 1)

compareEvaluatedHands(a, b) == CompareFrom(a, b, 1)

\* -------------------------------------------------- pot-manager: distribution

\* posA of sortByPositionFromDealer: seats clockwise from the dealer's left
PosFromDealerFromSeatZero(seat, dealerIndex, totalPlayers) == seat

PosFromDealer(seat, dealerIndex, totalPlayers) ==
    (seat - dealerIndex - 1 + totalPlayers) % totalPlayers

\* sortByPositionFromDealer: seats are distinct, so positions are distinct and
\* the sort is the ascending order of positions
RECURSIVE SortByPos(_, _, _)
SortByPos(winnerIds, dealerIndex, totalPlayers) ==
    IF winnerIds = {} THEN <<>>
    ELSE LET first == CHOOSE a \in winnerIds : \A b \in winnerIds :
                          PosFromDealer(a, dealerIndex, totalPlayers)
                              <= PosFromDealer(b, dealerIndex, totalPlayers)
         IN <<first>> \o SortByPos(winnerIds \ {first}, dealerIndex, totalPlayers)

sortByPositionFromDealer(winnerIds, players, dealerIndex) ==
    SortByPos(winnerIds, dealerIndex, Cardinality(Seats(players)))

\* the first eligible player's hand taken as the best, with no scan
BestHandFirstSeen(best, ids, playerHands) == best

\* the best hand found by the scan over eligible (in list order)
RECURSIVE BestHandFrom(_, _, _)
BestHandFrom(best, ids, playerHands) ==
    IF ids = <<>> THEN best
    ELSE LET hand == playerHands[Head(ids)] IN
         BestHandFrom(IF compareEvaluatedHands(hand, best) > 0 THEN hand ELSE best,
                      Tail(ids), playerHands)

\* const share = Math.floor(pot.amount / winners.length)
Share(amount, k) == amount \div k

\* the WinnerInfo entries one pot adds to results
SettlePot(pot, potIndex, playerHands, players, dealerIndex) ==
    LET eligible == {id \in pot.eligiblePlayerIds : id \in DOMAIN playerHands}
        eligibleList == SortAsc(eligible)
    IN
    IF eligible = {} THEN
        IF pot.eligiblePlayerIds # {}
        THEN <<[playerId |-> SetMin(pot.eligiblePlayerIds), amount |-> pot.amount,
                potIndex |-> potIndex]>>
        ELSE <<>>
    ELSE IF Cardinality(eligible) = 1 THEN
        <<[playerId |-> eligibleList[1], amount |-> pot.amount, potIndex |-> potIndex]>>
    ELSE
    LET bestHand == BestHandFrom(playerHands[eligibleList[1]], Tail(eligibleList), playerHands)
        winners == {id \in eligible : compareEvaluatedHands(playerHands[id], bestHand) = 0}
    IN
    IF Cardinality(winners) = 1 THEN
        <<[playerId |-> SetMin(winners), amount |-> pot.amount, potIndex |-> potIndex]>>
    ELSE
    LET k == Cardinality(winners)
        share == Share(pot.amount, k)
        remainder == pot.amount - share * k
        sortedWinners == sortByPositionFromDealer(winners, players, dealerIndex)
    IN [i \in 1..k |->
           [playerId |-> sortedWinners[i],
            amount |-> share + (IF i - 1 < remainder THEN 1 ELSE 0),
            potIndex |-> potIndex]]

RECURSIVE DistributeFrom(_, _, _, _, _)
DistributeFrom(pots, potIndex, playerHands, players, dealerIndex) ==
    IF potIndex >= Len(pots) THEN <<>>
    ELSE SettlePot(pots[potIndex + 1], potIndex, playerHands, players, dealerIndex)
         \o DistributeFrom(pots, potIndex + 1, playerHands, players, dealerIndex)

distributePots(pots, playerHands, players, dealerIndex) ==
    DistributeFrom(pots, 0, playerHands, players, dealerIndex)

\* ------------------------------------------------------- engine: construction

NoRequest == [player |-> -1, index |-> -1, legalActions |-> <<>>]

\* a Player as the constructor builds it; its id, name and seatIndex are its
\* index in state.players, holeCards is the number of cards held
NewPlayer(chips) ==
    [chips |-> chips, holeCards |-> 0, currentBet |-> 0, totalBetThisHand |-> 0,
     hasActedThisRound |-> FALSE, status |-> "ACTIVE"]

\* this.state after the constructor; communityCards is the number of cards on
\* the board, winners = <<>> stands for null
NewState(stacks) ==
    [players |-> [i \in DOMAIN stacks |-> NewPlayer(stacks[i])],
     communityCards |-> 0,
     pots |-> <<>>,
     currentBet |-> 0,
     lastRaiseIncrement |-> BIG_BLIND,
     phase |-> "WAITING",
     dealerIndex |-> -1,
     activePlayerIndex |-> -1,
     smallBlindIndex |-> -1,
     bigBlindIndex |-> -1,
     handNumber |-> 0,
     winners |-> <<>>]

Constructed(stacks) ==
    /\ state = NewState(stacks)
    /\ running = FALSE
    /\ pc = "idle"
    /\ actingOrder = <<>>
    /\ cursor = 0
    /\ request = NoRequest
    /\ emitted = <<>>

FnIdle == fin = <<>> /\ fout = <<>> /\ fpc = "none"

\* ------------------------------------------------------ engine: query helpers

getPlayersInGame(st) == {i \in Seats(st.players) : st.players[i].status # "BUSTED"}

getActivePlayers(st) == {i \in Seats(st.players) : st.players[i].status = "ACTIVE"}

getUnfoldedPlayers(st) ==
    {i \in Seats(st.players) : st.players[i].status \in {"ACTIVE", "ALL_IN"}}

\* the filtered array itself: seats in array order
InGameList(st) == SortAsc(getPlayersInGame(st))

\* list.findIndex(p => p.seatIndex === seat), 0-based, -1 when absent
FindIndex(list, seat) ==
    IF \E k \in 1..Len(list) : list[k] = seat
    THEN (CHOOSE k \in 1..Len(list) : list[k] = seat) - 1
    ELSE -1

\* list[i] for a 0-based index
At(list, i) == list[i + 1]

\* ------------------------------------------------------------ engine: initHand

\* moveDealer: the next seat after the dealer whose player is not BUSTED
RECURSIVE NextDealerFrom(_, _)
NextDealerFrom(st, offset) ==
    LET totalSeats == Cardinality(Seats(st.players))
        nextSeat == (st.dealerIndex + offset) % totalSeats
    IN IF offset > totalSeats THEN st.dealerIndex
       ELSE IF st.players[nextSeat].status # "BUSTED" THEN nextSeat
       ELSE NextDealerFrom(st, offset + 1)

\* the button put on the first seat in the game, wherever it was
moveDealerToFirstInGame(st) ==
    IF getPlayersInGame(st) = {} THEN st.dealerIndex ELSE At(InGameList(st), 0)

moveDealer(st) ==
    IF getPlayersInGame(st) = {} THEN st.dealerIndex
    ELSE IF st.dealerIndex = -1 THEN At(InGameList(st), 0)
    ELSE NextDealerFrom(st, 1)

initHand(st) ==
    LET reset == [i \in Seats(st.players) |->
                    [st.players[i] EXCEPT
                        !.status = IF @ # "BUSTED" THEN "ACTIVE" ELSE @,
                        !.holeCards = 0, !.currentBet = 0, !.totalBetThisHand = 0,
                        !.hasActedThisRound = FALSE]]
        s1 == [st EXCEPT !.handNumber = @ + 1, !.phase = "HAND_INIT",
                         !.communityCards = 0, !.pots = <<>>, !.currentBet = 0,
                         !.lastRaiseIncrement = BIG_BLIND, !.winners = <<>>,
                         !.players = reset]
        s2 == [s1 EXCEPT !.dealerIndex = moveDealer(s1)]
        playersInGame == InGameList(s2)
        n == Len(playersInGame)
        dealerPos == FindIndex(playersInGame, s2.dealerIndex)
    IN IF n = 2
       THEN [s2 EXCEPT !.smallBlindIndex = At(playersInGame, dealerPos),
                       !.bigBlindIndex = At(playersInGame, (dealerPos + 1) % 2)]
       ELSE [s2 EXCEPT !.smallBlindIndex = At(playersInGame, (dealerPos + 1) % n),
                       !.bigBlindIndex = At(playersInGame, (dealerPos + 2) % n)]

\* ---------------------------------------------------------- engine: postBlinds

\* a blind taken from the stack with the status left as it was
postBlindKeepStatus(player, amount) ==
    LET actual == Min(amount, player.chips)
    IN [player EXCEPT !.chips = @ - actual, !.currentBet = @ + actual,
                      !.totalBetThisHand = @ + actual]

postBlind(player, amount) ==
    LET actual == Min(amount, player.chips)
        paid == [player EXCEPT !.chips = @ - actual, !.currentBet = @ + actual,
                               !.totalBetThisHand = @ + actual]
    IN IF paid.chips = 0 THEN [paid EXCEPT !.status = "ALL_IN"] ELSE paid

postBlinds(st) ==
    LET sb == st.smallBlindIndex
        bb == st.bigBlindIndex
        p1 == [st.players EXCEPT ![sb] = postBlind(@, Min(SMALL_BLIND, @.chips))]
        p2 == [p1 EXCEPT ![bb] = postBlind(@, Min(BIG_BLIND, @.chips))]
    IN [st EXCEPT !.players = p2, !.currentBet = BIG_BLIND,
                  !.lastRaiseIncrement = BIG_BLIND, !.pots = buildSidePots(p2)]

\* two rounds of one card to every seat, busted or not
dealHoleCardsEverySeat(st) ==
    [st EXCEPT !.players = [i \in Seats(@) |-> [@[i] EXCEPT !.holeCards = @ + 2]]]

\* dealHoleCards: two rounds of one card to every player in the game
dealHoleCards(st) ==
    [st EXCEPT !.players = [i \in Seats(@) |->
        IF i \in getPlayersInGame(st) THEN [@[i] EXCEPT !.holeCards = @ + 2] ELSE @[i]]]

\* dealCommunityCards: the cards pushed for a phase (the burn changes no state
\* that is kept here)
\* one card for the flop as well
BoardCardsOneEach(phase) == IF phase \in {"FLOP", "TURN", "RIVER"} THEN 1 ELSE 0

BoardCards(phase) == IF phase = "FLOP" THEN 3 ELSE IF phase \in {"TURN", "RIVER"} THEN 1 ELSE 0

dealCommunityCards(st, phase) == [st EXCEPT !.communityCards = @ + BoardCards(phase)]

\* the phases array of runHand
NextPhase(phase) ==
    CASE phase = "HAND_INIT" -> "PRE_FLOP"
      [] phase = "PRE_FLOP" -> "FLOP"
      [] phase = "FLOP" -> "TURN"
      [] phase = "TURN" -> "RIVER"

\* ------------------------------------------------------ engine: betting round

\* the in-game players in seat order, from the lowest seat
getActingOrderFromFirstSeat(st, phase) == InGameList(st)

getActingOrder(st, phase) ==
    LET playersInGame == InGameList(st)
        n == Len(playersInGame)
        isHeadsUp == n = 2
        startSeatIndex ==
            IF phase = "PRE_FLOP"
            THEN IF isHeadsUp THEN st.smallBlindIndex
                 ELSE At(playersInGame, (FindIndex(playersInGame, st.bigBlindIndex) + 1) % n)
            ELSE IF isHeadsUp THEN st.bigBlindIndex
                 ELSE At(playersInGame, (FindIndex(playersInGame, st.dealerIndex) + 1) % n)
        startIdx == FindIndex(playersInGame, startSeatIndex)
    IN [k \in 1..n |-> At(playersInGame, (startIdx + k - 1) % n)]

\* the test of findNextToAct on one player
NeedsToActIgnoringBets(st, seat) ==
    /\ st.players[seat].status = "ACTIVE"
    /\ ~st.players[seat].hasActedThisRound

NeedsToAct(st, seat) ==
    /\ st.players[seat].status = "ACTIVE"
    /\ (~st.players[seat].hasActedThisRound
        \/ st.players[seat].currentBet < st.currentBet)

\* findNextToAct: the 0-based index in the acting order, -1 when there is none
RECURSIVE FindNextFrom(_, _, _, _)
FindNextFrom(st, order, startFrom, i) ==
    LET len == Len(order)
        idx == (startFrom + i) % len
    IN IF i >= len THEN -1
       ELSE IF NeedsToAct(st, At(order, idx)) THEN idx
       ELSE FindNextFrom(st, order, startFrom, i + 1)

\* the scan for the next player, always started at the head of the order
findNextToActFromHead(st, order, startFrom) == FindNextFrom(st, order, 0, 0)

findNextToAct(st, order, startFrom) == FindNextFrom(st, order, startFrom, 0)

\* the loop's completion test: allActed && allBetsEqual
RoundComplete(st) ==
    /\ \A i \in getActivePlayers(st) : st.players[i].hasActedThisRound
    /\ \A i \in getActivePlayers(st) : st.players[i].currentBet = st.currentBet

\* the prologue of runBettingRound
resetForRound(st, phase) ==
    LET s1 == IF phase # "PRE_FLOP"
              THEN [st EXCEPT !.players = [i \in Seats(@) |-> [@[i] EXCEPT !.currentBet = 0]],
                              !.currentBet = 0, !.lastRaiseIncrement = BIG_BLIND]
              ELSE st
    IN [s1 EXCEPT !.players = [i \in Seats(@) |->
           IF @[i].status = "ACTIVE" THEN [@[i] EXCEPT !.hasActedThisRound = FALSE] ELSE @[i]]]

\* ---------------------------------------------------------- engine: applyAction

\* the bet put on the table with the stack left as it was
placeBetStackUntouched(player, amount) ==
    LET actual == Min(amount, player.chips)
    IN [player EXCEPT !.currentBet = @ + actual, !.totalBetThisHand = @ + actual]

placeBet(player, amount) ==
    LET actual == Min(amount, player.chips)
    IN [player EXCEPT !.chips = @ - actual, !.currentBet = @ + actual,
                      !.totalBetThisHand = @ + actual]

\* no flag is cleared
reopenActionNobody(players, excludePlayer) == players

reopenAction(players, excludePlayer) ==
    [i \in Seats(players) |->
        IF i # excludePlayer /\ players[i].status = "ACTIVE"
        THEN [players[i] EXCEPT !.hasActedThisRound = FALSE]
        ELSE players[i]]

\* this.state.pots = buildSidePots(this.state.players) at the end of applyAction
PotsAfterActionStale(players, oldPots) == oldPots

PotsAfterAction(players, oldPots) == buildSidePots(players)

\* the switch of applyAction: players, currentBet and lastRaiseIncrement after it
ActionEffect(st, seat, action) ==
    LET player == st.players[seat]
        unchanged == [players |-> st.players, currentBet |-> st.currentBet,
                      lastRaiseIncrement |-> st.lastRaiseIncrement]
    IN
    CASE action.type = "FOLD" ->
            [unchanged EXCEPT !.players[seat].status = "FOLDED"]
      [] action.type = "CHECK" -> unchanged
      [] action.type = "CALL" ->
            LET callAmount == st.currentBet - player.currentBet
                actual == Min(callAmount, player.chips)
            IN [unchanged EXCEPT !.players[seat] = placeBet(player, actual)]
      [] action.type = "BET" ->
            LET betAmount == action.amount
                paid == placeBet(player, betAmount)
            IN [players |-> reopenAction([st.players EXCEPT ![seat] = paid], seat),
                currentBet |-> paid.currentBet,
                lastRaiseIncrement |-> betAmount]
      [] action.type = "RAISE" ->
            LET raiseTotal == action.amount
                raiseIncrement == raiseTotal - st.currentBet
                amountToAdd == raiseTotal - player.currentBet
                paid == placeBet(player, amountToAdd)
            IN [players |-> reopenAction([st.players EXCEPT ![seat] = paid], seat),
                currentBet |-> raiseTotal,
                lastRaiseIncrement |-> IF raiseIncrement >= st.lastRaiseIncrement
                                       THEN raiseIncrement ELSE st.lastRaiseIncrement]
      [] action.type = "ALL_IN" ->
            LET allInAmount == player.chips
                newTotal == player.currentBet + allInAmount
                paid == [placeBet(player, allInAmount) EXCEPT !.status = "ALL_IN"]
                ps == [st.players EXCEPT ![seat] = paid]
                raiseIncrement == newTotal - st.currentBet
            IN IF newTotal > st.currentBet
               THEN IF raiseIncrement >= st.lastRaiseIncrement
                    THEN [players |-> reopenAction(ps, seat), currentBet |-> newTotal,
                          lastRaiseIncrement |-> raiseIncrement]
                    ELSE [players |-> ps, currentBet |-> newTotal,
                          lastRaiseIncrement |-> st.lastRaiseIncrement]
               ELSE [players |-> ps, currentBet |-> st.currentBet,
                     lastRaiseIncrement |-> st.lastRaiseIncrement]
      [] OTHER -> unchanged

\* the action applied without player.hasActedThisRound = true
applyActionFlagNotSet(st, seat, action) ==
    LET eff == ActionEffect(st, seat, action)
    IN [st EXCEPT !.players = eff.players, !.currentBet = eff.currentBet,
                  !.lastRaiseIncrement = eff.lastRaiseIncrement,
                  !.pots = PotsAfterAction(eff.players, st.pots)]

applyAction(st, seat, action) ==
    LET eff == ActionEffect(st, seat, action)
        ps == [eff.players EXCEPT ![seat].hasActedThisRound = TRUE]
    IN [st EXCEPT !.players = ps, !.currentBet = eff.currentBet,
                  !.lastRaiseIncrement = eff.lastRaiseIncrement,
                  !.pots = PotsAfterAction(ps, st.pots)]

\* ------------------------------------------------- engine: settling the hand

RECURSIVE AwardChips(_, _)
AwardChips(players, winners) ==
    IF winners = <<>> THEN players
    ELSE LET w == Head(winners) IN
         AwardChips([players EXCEPT ![w.playerId].chips = @ + w.amount], Tail(winners))

\* the award of the first pot alone
awardLastPlayerMainPotOnly(st) ==
    LET remaining == getUnfoldedPlayers(st) IN
    IF Cardinality(remaining) # 1 THEN st
    ELSE LET winner == SetMin(remaining)
             pots == buildSidePots(st.players)
             totalPot == pots[1].amount
         IN [st EXCEPT !.pots = pots,
                       !.players[winner].chips = @ + totalPot,
                       !.winners = <<[playerId |-> winner, amount |-> totalPot, potIndex |-> 0]>>,
                       !.phase = "SHOWDOWN"]

\* awardLastPlayer up to its emitState
awardLastPlayer(st) ==
    LET remaining == getUnfoldedPlayers(st) IN
    IF Cardinality(remaining) # 1 THEN st
    ELSE LET winner == SetMin(remaining)
             pots == buildSidePots(st.players)
             totalPot == PotTotal(pots)
         IN [st EXCEPT !.pots = pots,
                       !.players[winner].chips = @ + totalPot,
                       !.winners = <<[playerId |-> winner, amount |-> totalPot, potIndex |-> 0]>>,
                       !.phase = "SHOWDOWN"]

\* showdown up to its first emitState
showdownOpen(st) == [st EXCEPT !.phase = "SHOWDOWN", !.pots = buildSidePots(st.players)]

\* the players who get an evaluated hand at showdown
ShowdownSeats(st) == {i \in getUnfoldedPlayers(st) : st.players[i].holeCards = 2}

\* showdown from distributePots to its second emitState
showdownAward(st, playerHands) ==
    LET winners == distributePots(st.pots, playerHands, st.players, st.dealerIndex)
    IN [st EXCEPT !.players = AwardChips(@, winners), !.winners = winners]

\* cleanup: the loop that marks the busted players
markBustedKeepPhase(st) ==
    [st EXCEPT !.players = [i \in Seats(@) |->
                   IF @[i].chips <= 0 /\ @[i].status # "BUSTED"
                   THEN [@[i] EXCEPT !.status = "BUSTED"] ELSE @[i]]]

markBusted(st) ==
    [st EXCEPT !.phase = "CLEANUP",
               !.players = [i \in Seats(@) |->
                   IF @[i].chips <= 0 /\ @[i].status # "BUSTED"
                   THEN [@[i] EXCEPT !.status = "BUSTED"] ELSE @[i]]]

\* ------------------------------------------------------------- engine: bounds

\* seats at the table (the human and playerCount bots)
MaxPlayers == 3
\* largest stack a seat starts the modelled play with
MaxStack == 10
\* the stacks a seat can start the modelled play with: less than the small
\* blind, less than the big blind, a few blinds, the largest
StackChoices == {1, 3, 6, MaxStack}
\* hands played before the model stops starting new ones
MaxHands == 1

\* the values arrays of the hands a showdown can evaluate: a pair of aces, a
\* pair of kings
HandSamples == {<<9, 14>>, <<9, 13>>}

ActionTypes == {"FOLD", "CHECK", "CALL", "BET", "RAISE", "ALL_IN", "POST_SB", "POST_BB"}

\* the amounts a decision callback may answer with
RawAmounts == 0..(MaxStack + 1)

\* ------------------------------------------------------------ engine: actions

\* the constructor, with stacks that a table can hold at the start of a hand
Init ==
    /\ \E n \in 2..MaxPlayers : \E stacks \in [0..(n - 1) -> StackChoices] :
           Constructed(stacks)
    /\ FnIdle

StartGame ==
    /\ pc = "idle"
    /\ ~running
    /\ running' = TRUE
    /\ \E d \in getActivePlayers(state) : state' = [state EXCEPT !.dealerIndex = d]
    /\ pc' = "loop"
    /\ emitted' = <<>>
    /\ UNCHANGED <<actingOrder, cursor, request, fnVars>>

\* startGame's guard: if (this.running) return
AlreadyRunningNever(isRunning) == FALSE

AlreadyRunning(isRunning) == isRunning

\* startGame called again on the same engine. The engine stops running only
\* with fewer than 2 players in the game, so a gameLoop started then ends at
\* its first test, before any await; with no ACTIVE player left
\* activePlayers[randomIdx] is undefined and the call throws after
\* this.running = true.
StartGameAgain ==
    /\ pc # "idle"
    /\ IF AlreadyRunning(running)
       THEN UNCHANGED <<state, running, emitted>>
       ELSE IF getActivePlayers(state) = {}
       THEN /\ running' = TRUE
            /\ UNCHANGED <<state, emitted>>
       ELSE /\ \E d \in getActivePlayers(state) :
                  state' = [state EXCEPT
                      !.dealerIndex = d,
                      !.phase = IF Cardinality(getPlayersInGame(state)) < 2
                                THEN "GAME_OVER" ELSE @]
            /\ emitted' = <<state'>>
            /\ running' = FALSE
    /\ UNCHANGED <<pc, actingOrder, cursor, request, fnVars>>

\* one test of gameLoop's while loop; no hand is started after hand maxHands
GameLoop(maxHands) ==
    /\ pc = "loop"
    /\ (running /\ Cardinality(getPlayersInGame(state)) >= 2)
           => state.handNumber < maxHands
    /\ IF ~running
       THEN /\ pc' = "stopped"
            /\ emitted' = <<>>
            /\ UNCHANGED <<state, running>>
       ELSE IF Cardinality(getPlayersInGame(state)) < 2
       THEN /\ state' = [state EXCEPT !.phase = "GAME_OVER"]
            /\ emitted' = <<state'>>
            /\ running' = FALSE
            /\ pc' = "stopped"
       ELSE /\ pc' = "initHand"
            /\ emitted' = <<>>
            /\ UNCHANGED <<state, running>>
    /\ UNCHANGED <<actingOrder, cursor, request, fnVars>>

InitHand ==
    /\ pc = "initHand"
    /\ state' = initHand(state)
    /\ emitted' = <<state'>>
    /\ pc' = "postBlinds"
    /\ UNCHANGED <<running, actingOrder, cursor, request, fnVars>>

\* applyAction's logAmount
LogAmount(st, seat, action) ==
    LET player == st.players[seat] IN
    CASE action.type = "CALL" -> Min(st.currentBet - player.currentBet, player.chips)
      [] action.type \in {"BET", "RAISE"} -> action.amount
      [] action.type = "ALL_IN" -> player.chips
      [] OTHER -> 0

LogEntry(st, seat, type, amount) ==
    [playerId |-> seat, action |-> type, amount |-> amount,
     phase |-> st.phase, handNumber |-> st.handNumber]

\* addLog: state.actionLog is kept, in fout, only where it is read (fpc = "log")
addLog(entries) ==
    IF fpc = "log" THEN fout' = fout \o entries /\ UNCHANGED <<fin, fpc>>
    ELSE UNCHANGED fnVars

PostBlinds ==
    /\ pc = "postBlinds"
    /\ state' = postBlinds(state)
    /\ emitted' = <<state'>>
    /\ pc' = "dealHole"
    /\ addLog(<<LogEntry(state, state.smallBlindIndex, "POST_SB",
                         Min(SMALL_BLIND, state.players[state.smallBlindIndex].chips)),
                LogEntry(state, state.bigBlindIndex, "POST_BB",
                         Min(BIG_BLIND, state.players[state.bigBlindIndex].chips))>>)
    /\ UNCHANGED <<running, actingOrder, cursor, request>>

DealHoleCards ==
    /\ pc = "dealHole"
    /\ state' = dealHoleCards(state)
    /\ emitted' = <<state'>>
    /\ pc' = "phase"
    /\ UNCHANGED <<running, actingOrder, cursor, request, fnVars>>

\* one iteration of runHand's loop over the phases, up to the betting round
EnterPhase ==
    /\ pc = "phase"
    /\ LET phase == NextPhase(state.phase)
           s1 == [state EXCEPT !.phase = phase]
           s2 == IF phase # "PRE_FLOP" THEN dealCommunityCards(s1, phase) ELSE s1
       IN /\ state' = s2
          /\ emitted' = IF phase # "PRE_FLOP" THEN <<s2, s2>> ELSE <<s2>>
          /\ pc' = IF Cardinality(getUnfoldedPlayers(s2)) <= 1 THEN "award"
                   ELSE IF Cardinality(getActivePlayers(s2)) <= 1
                        THEN IF phase = "RIVER" THEN "showdown" ELSE "phase"
                        ELSE "round"
    /\ UNCHANGED <<running, actingOrder, cursor, request, fnVars>>

\* runBettingRound up to its loop
BeginRound ==
    /\ pc = "round"
    /\ state' = resetForRound(state, state.phase)
    /\ actingOrder' = getActingOrder(state', state.phase)
    /\ cursor' = 0
    /\ emitted' = <<>>
    /\ pc' = "bet"
    /\ UNCHANGED <<running, request, fnVars>>

\* one iteration of runBettingRound's loop, up to the action request or the
\* end of the round
BettingLoop ==
    /\ pc = "bet"
    /\ LET idx == findNextToAct(state, actingOrder, cursor) IN
       IF getActivePlayers(state) = {} \/ RoundComplete(state) \/ idx = -1
       THEN /\ state' = [state EXCEPT !.activePlayerIndex = -1]
            /\ emitted' = <<state'>>
            /\ pc' = "afterRound"
            /\ UNCHANGED <<cursor, request>>
       ELSE LET seat == At(actingOrder, idx)
                s1 == [state EXCEPT !.activePlayerIndex = seat]
                legalActions == calculateLegalActions(s1.players[seat], s1)
            IN IF legalActions = <<>>
               THEN /\ state' = [s1 EXCEPT !.players[seat].hasActedThisRound = TRUE]
                    /\ cursor' = (idx + 1) % Len(actingOrder)
                    /\ emitted' = <<>>
                    /\ pc' = "bet"
                    /\ UNCHANGED request
               ELSE /\ state' = s1
                    /\ emitted' = <<s1>>
                    /\ request' = [player |-> seat, index |-> idx,
                                   legalActions |-> legalActions]
                    /\ pc' = "await"
                    /\ UNCHANGED cursor
    /\ UNCHANGED <<running, actingOrder, fnVars>>

\* the decision callback answers; the action is validated and applied
Answer(types, amounts) ==
    /\ pc = "await"
    /\ \E t \in types, a \in amounts :
         LET seat == request.player
             action == validateAction([type |-> t, amount |-> a], request.legalActions,
                                      state.players[seat], state)
             s1 == applyAction(state, seat, action)
         IN /\ state' = s1
            /\ emitted' = <<s1>>
            /\ pc' = IF Cardinality(getUnfoldedPlayers(s1)) <= 1 THEN "award" ELSE "bet"
            /\ addLog(<<LogEntry(state, seat, action.type, LogAmount(state, seat, action))>>)
    /\ cursor' = (request.index + 1) % Len(actingOrder)
    /\ request' = NoRequest
    /\ UNCHANGED <<running, actingOrder>>

AnswerAction == Answer(ActionTypes, RawAmounts)

\* runHand after a betting round that was not ended by folds
AfterRound ==
    /\ pc = "afterRound"
    /\ pc' = IF Cardinality(getActivePlayers(state)) <= 1
                /\ Cardinality(getUnfoldedPlayers(state)) > 1
             THEN "runout"
             ELSE IF state.phase = "RIVER" THEN "showdown" ELSE "phase"
    /\ emitted' = <<>>
    /\ UNCHANGED <<state, running, actingOrder, cursor, request, fnVars>>

\* one iteration of the loop that deals the remaining boards
RunOut ==
    /\ pc = "runout"
    /\ IF state.phase = "RIVER"
       THEN /\ pc' = "showdown"
            /\ emitted' = <<>>
            /\ UNCHANGED state
       ELSE /\ state' = dealCommunityCards([state EXCEPT !.phase = NextPhase(@)],
                                           NextPhase(state.phase))
            /\ emitted' = <<state', state'>>
            /\ pc' = "runout"
    /\ UNCHANGED <<running, actingOrder, cursor, request, fnVars>>

Showdown ==
    /\ pc = "showdown"
    /\ LET s1 == showdownOpen(state) IN
       \E playerHands \in [ShowdownSeats(s1) -> HandSamples] :
          /\ state' = showdownAward(s1, playerHands)
          /\ emitted' = <<s1, state'>>
    /\ pc' = "cleanup"
    /\ UNCHANGED <<running, actingOrder, cursor, request, fnVars>>

AwardLastPlayer ==
    /\ pc = "award"
    /\ state' = awardLastPlayer(state)
    /\ emitted' = IF Cardinality(getUnfoldedPlayers(state)) # 1 THEN <<>> ELSE <<state'>>
    /\ pc' = "cleanup"
    /\ UNCHANGED <<running, actingOrder, cursor, request, fnVars>>

\* cleanup: the phase is set and the busted players are marked
CleanupMark ==
    /\ pc = "cleanup"
    /\ state' = markBusted(state)
    /\ emitted' = <<>>
    /\ pc' = "cleanupCheck"
    /\ UNCHANGED <<running, actingOrder, cursor, request, fnVars>>

\* cleanup: the game-over check and the emitState
CleanupCheck ==
    /\ pc = "cleanupCheck"
    /\ IF Cardinality(getPlayersInGame(state)) < 2
       THEN /\ state' = [state EXCEPT !.phase = "GAME_OVER"]
            /\ running' = FALSE
       ELSE UNCHANGED <<state, running>>
    /\ emitted' = <<state'>>
    /\ pc' = "loop"
    /\ UNCHANGED <<actingOrder, cursor, request, fnVars>>

\* the engine's own steps of runHand
EngineStep ==
    \/ InitHand
    \/ PostBlinds
    \/ DealHoleCards
    \/ EnterPhase
    \/ BeginRound
    \/ BettingLoop
    \/ AfterRound
    \/ RunOut
    \/ Showdown
    \/ AwardLastPlayer
    \/ CleanupMark
    \/ CleanupCheck

\* the steps of runHand
HandStep == EngineStep \/ AnswerAction

Next == StartGame \/ StartGameAgain \/ GameLoop(MaxHands) \/ HandStep

Spec == Init /\ [][Next]_vars

\* ------------------------------------------------- engine: a game of several hands

\* hands of a game played to its end
MaxGameHands == 2
\* largest stack at the start of such a game
MaxGameStack == 5

\* short stacks: below the small blind, and a little more than the big blind
GameStackChoices == {1, MaxGameStack}

GameInit ==
    /\ \E n \in 2..MaxPlayers : \E stacks \in [0..(n - 1) -> GameStackChoices] :
           Constructed(stacks)
    /\ FnIdle

GameNext == StartGame \/ StartGameAgain \/ GameLoop(MaxGameHands) \/ HandStep

\* the steps that run a pot, an action or a hand through the pure functions
SettlingStep == InitHand \/ PostBlinds \/ AnswerAction \/ Showdown \/ AwardLastPlayer

\* the control positions where a SettlingStep is enabled
SettlingPending == pc \in {"initHand", "postBlinds", "await", "showdown", "award"}

\* the other steps of the game
ControlStep ==
    \/ StartGame
    \/ GameLoop(MaxGameHands)
    \/ DealHoleCards
    \/ EnterPhase
    \/ BeginRound
    \/ BettingLoop
    \/ AfterRound
    \/ RunOut
    \/ CleanupMark
    \/ CleanupCheck

\* Every step of the engine is a continuation the event loop runs (a resolved
\* promise, an expired timer), and the decision callback answers every
\* request: weak fairness of the steps.  For the settling steps it is written
\* out, WF_vars(A) being []<>~ENABLED <<A>>_vars \/ []<><<A>>_vars, with the
\* enabling condition as the state predicate SettlingPending.
SpecGame ==
    /\ GameInit
    /\ [][GameNext]_vars
    /\ WF_vars(ControlStep)
    /\ ([]<>(~SettlingPending) \/ []<><<SettlingStep>>_vars)

\* ------------------------------------------------ buildSidePots on any players

PotStatuses == {"ACTIVE", "FOLDED", "ALL_IN"}

PotPlayer == [totalBetThisHand : 0..MaxTotalBet, status : PotStatuses]

PotsInit ==
    /\ Constructed(<<>>)
    /\ \E n \in 1..MaxPotPlayers : fin \in [0..(n - 1) -> PotPlayer]
    /\ fout = <<>>
    /\ fpc = "in"

BuildPots ==
    /\ fpc = "in"
    /\ fout' = buildSidePots(fin)
    /\ fpc' = "done"
    /\ UNCHANGED <<fin, engineVars>>

SpecPots == PotsInit /\ [][BuildPots]_vars

\* C1: the amounts of the pots buildSidePots returns add up to the sum of all
\* players' totalBetThisHand, whatever the bets and statuses (folded included).
C1_PotsSumToWagered ==
    fpc = "done" => PotTotal(fout) = TotalWagered(fin)

\* a folded player's chips are in the pots next to two unfolded players' chips
C1_Witness ==
    /\ fpc = "done"
    /\ \E i \in Seats(fin) : fin[i].status = "FOLDED" /\ fin[i].totalBetThisHand > 0
    /\ Len(fout) >= 2
    /\ PotTotal(fout) = TotalWagered(fin)

\* C10: no two pots buildSidePots returns have the same eligible set, and the
\* eligible set of every pot is a proper subset of that of the pot before it.
C10_EligibleStrictlyShrinking ==
    fpc = "done" =>
        /\ \A k \in 1..(Len(fout) - 1) :
              /\ fout[k + 1].eligiblePlayerIds \subseteq fout[k].eligiblePlayerIds
              /\ fout[k + 1].eligiblePlayerIds # fout[k].eligiblePlayerIds
        /\ \A j, k \in 1..Len(fout) :
              j # k => fout[j].eligiblePlayerIds # fout[k].eligiblePlayerIds

\* two layers with the same eligible set were merged (a folded player paid
\* into a level of his own) and two pots are left
C10_Witness ==
    /\ fpc = "done"
    /\ Len(fout) >= 2
    /\ Len(PotLayers(fin)) > Len(fout)

\* ------------------------- calculateLegalActions and validateAction on any input

\* largest stack handed to calculateLegalActions
MaxFnChips == 7
\* largest currentBet and lastRaiseIncrement handed to calculateLegalActions
MaxFnBet == 6

\* the amounts a caller may request: below every minimum, above every maximum
FnAmounts == (-1)..(MaxFnChips + MaxFnBet + 1)

\* the player's street bet never exceeds the table's currentBet
BettingInit ==
    /\ Constructed(<<>>)
    /\ \E status \in {"ACTIVE", "ALL_IN", "FOLDED"}, chips \in 0..MaxFnChips,
          tableBet \in 0..MaxFnBet, incr \in 1..MaxFnBet, phase \in {"PRE_FLOP", "FLOP"} :
       \E streetBet \in 0..tableBet :
          fin = [player |-> [status |-> status, chips |-> chips, currentBet |-> streetBet],
                 gameState |-> [currentBet |-> tableBet, lastRaiseIncrement |-> incr,
                                phase |-> phase]]
    /\ fout = <<>>
    /\ fpc = "in"

CalcLegal ==
    /\ fpc = "in"
    /\ fout' = [legalActions |-> calculateLegalActions(fin.player, fin.gameState)]
    /\ fpc' = "legal"
    /\ UNCHANGED <<fin, engineVars>>

\* runBettingRound validates the answer to a request, which it issues only
\* for a non-empty legalActions
Validate ==
    /\ fpc = "legal"
    /\ fout.legalActions # <<>>
    /\ \E t \in ActionTypes, a \in FnAmounts :
          fout' = [legalActions |-> fout.legalActions,
                   requested |-> [type |-> t, amount |-> a],
                   result |-> validateAction([type |-> t, amount |-> a], fout.legalActions,
                                             fin.player, fin.gameState)]
    /\ fpc' = "validated"
    /\ UNCHANGED <<fin, engineVars>>

SpecBetting == BettingInit /\ [][CalcLegal \/ Validate]_vars

CanAct == fin.player.status = "ACTIVE" /\ fin.player.chips > 0

Owed == fin.gameState.currentBet - fin.player.currentBet

\* the types of the legal actions, in the order returned
TypeList(la) == [k \in 1..Len(la) |-> la[k].type]

\* C4 as stated: CHECK with a sizing option when nothing is owed; FOLD + CALL,
\* optionally RAISE, when the stack covers the amount owed; ALL_IN alone when
\* the amount owed exceeds the stack.
C4_ShapesAsClaimed ==
    (fpc = "legal" /\ CanAct) =>
        LET types == TypeList(fout.legalActions) IN
        IF Owed = 0
        THEN types \in {<<"CHECK", "BET">>, <<"CHECK", "RAISE">>, <<"CHECK", "ALL_IN">>}
        ELSE IF Owed > fin.player.chips
        THEN types = <<"ALL_IN">>
        ELSE types \in {<<"FOLD", "CALL">>, <<"FOLD", "CALL", "RAISE">>}

\* C4 (amended): for an ACTIVE player with chips, calculateLegalActions returns
\* CHECK plus one sizing option (BET, RAISE or ALL_IN) when nothing is owed;
\* FOLD + CALL plus RAISE, or plus ALL_IN when the stack cannot cover the
\* minimum raise, when the stack exceeds the amount owed; FOLD + ALL_IN when
\* the amount owed is at least the stack.
C4_Shapes ==
    (fpc = "legal" /\ CanAct) =>
        LET types == TypeList(fout.legalActions)
            chips == fin.player.chips
            raiseChipsNeeded == fin.gameState.currentBet + fin.gameState.lastRaiseIncrement
                                    - fin.player.currentBet
        IN
        IF Owed = 0
        THEN types \in {<<"CHECK", "BET">>, <<"CHECK", "RAISE">>, <<"CHECK", "ALL_IN">>}
        ELSE IF Owed >= chips
        THEN types = <<"FOLD", "ALL_IN">>
        ELSE IF chips >= raiseChipsNeeded
        THEN types = <<"FOLD", "CALL", "RAISE">>
        ELSE types = <<"FOLD", "CALL", "ALL_IN">>

\* each of the three shapes is returned for some input; here the stack covers
\* the call but not the minimum raise
C4_Witness ==
    /\ fpc = "legal"
    /\ CanAct
    /\ Owed > 0
    /\ fin.player.chips > Owed
    /\ TypeList(fout.legalActions) = <<"FOLD", "CALL", "ALL_IN">>

\* C5: every RAISE or BET entry calculateLegalActions returns has
\* minAmount <= maxAmount.
C5_MinAtMostMax ==
    fpc = "legal" =>
        \A k \in 1..Len(fout.legalActions) :
            fout.legalActions[k].type \in {"RAISE", "BET"} =>
                fout.legalActions[k].minAmount <= fout.legalActions[k].maxAmount

\* a RAISE is offered to a stack that covers exactly the minimum raise, facing
\* a bet
C5_Witness ==
    /\ fpc = "legal"
    /\ Owed > 0
    /\ \E k \in 1..Len(fout.legalActions) :
          /\ fout.legalActions[k].type = "RAISE"
          /\ fout.legalActions[k].minAmount = fout.legalActions[k].maxAmount

\* the legal entry of the requested type, and the requested amount brought
\* into its bounds
RequestedLegal == FindLegal(fout.legalActions, fout.requested.type)

InBounds(amount, lo, hi) == IF amount < lo THEN lo ELSE IF amount > hi THEN hi ELSE amount

\* C6: validateAction returns an action that can be applied: a type that is
\* not legal becomes CHECK if CHECK is legal and FOLD otherwise; a BET/RAISE
\* amount is brought into [minAmount, maxAmount]; a BET/RAISE that would use
\* the whole stack becomes ALL_IN; CALL and ALL_IN amounts come from the state.
C6_ValidatedIsApplicable ==
    fpc = "validated" =>
        LET la == fout.legalActions
            req == fout.requested
            res == fout.result
            chips == fin.player.chips
        IN
        /\ res.type \in Types(la) \/ (res.type = "ALL_IN" /\ req.type \in {"BET", "RAISE"})
        /\ req.type \notin Types(la) =>
              res = [type |-> IF "CHECK" \in Types(la) THEN "CHECK" ELSE "FOLD", amount |-> 0]
        /\ (req.type \in Types(la) /\ req.type \in {"FOLD", "CHECK"}) =>
              res = [type |-> req.type, amount |-> 0]
        /\ (req.type \in Types(la) /\ req.type \in {"BET", "RAISE"}) =>
              LET wanted == InBounds(req.amount, RequestedLegal.minAmount,
                                     RequestedLegal.maxAmount)
                  spent == IF req.type = "BET" THEN wanted
                           ELSE wanted - fin.player.currentBet
              IN IF spent >= chips
                 THEN res = [type |-> "ALL_IN", amount |-> chips]
                 ELSE res = [type |-> req.type, amount |-> wanted]
        /\ res.type = "CALL" => res.amount = Owed /\ res.amount < chips
        /\ res.type = "ALL_IN" => res.amount = chips

\* a RAISE requested above the maximum is promoted to ALL_IN, and the amount
\* requested is not the stack
C6_Witness ==
    /\ fpc = "validated"
    /\ fout.requested.type = "RAISE"
    /\ "RAISE" \in Types(fout.legalActions)
    /\ fout.requested.amount > RequestedLegal.maxAmount
    /\ fout.requested.amount # fin.player.chips
    /\ fout.result = [type |-> "ALL_IN", amount |-> fin.player.chips]

\* ---------------------------------------------------- distributePots on one pot

\* players at the table of a distributed pot
MaxDistPlayers == 3
\* largest pot amount next to the 101 chips of the example
MaxDistAmount == 4

DistAmounts == 0..MaxDistAmount \cup {101}

DistInit ==
    /\ Constructed(<<>>)
    /\ \E n \in 2..MaxDistPlayers :
       \E amount \in DistAmounts, eligible \in SUBSET (0..(n - 1)),
          shown \in SUBSET (0..(n - 1)), dealerIndex \in 0..(n - 1) :
       \E playerHands \in [shown -> HandSamples] :
          fin = [pots |-> <<[amount |-> amount, eligiblePlayerIds |-> eligible]>>,
                 playerHands |-> playerHands,
                 players |-> [i \in 0..(n - 1) |-> [seatIndex |-> i]],
                 dealerIndex |-> dealerIndex]
    /\ fout = <<>>
    /\ fpc = "in"

Distribute ==
    /\ fpc = "in"
    /\ fout' = distributePots(fin.pots, fin.playerHands, fin.players, fin.dealerIndex)
    /\ fpc' = "done"
    /\ UNCHANGED <<fin, engineVars>>

SpecDistribute == DistInit /\ [][Distribute]_vars

\* the eligible players with a hand, and those among them no hand beats
Contenders(pot) == pot.eligiblePlayerIds \cap DOMAIN fin.playerHands

TiedWinners(pot) ==
    {w \in Contenders(pot) : \A v \in Contenders(pot) :
        compareEvaluatedHands(fin.playerHands[w], fin.playerHands[v]) >= 0}

\* the seats in clockwise order from the dealer's left
Clockwise == [j \in 1..Cardinality(Seats(fin.players)) |->
                 (fin.dealerIndex + j) % Cardinality(Seats(fin.players))]

\* the tied winners met before w on the way clockwise from the dealer's left
WinnersBefore(pot, w) ==
    Cardinality({v \in TiedWinners(pot) : \E i, j \in DOMAIN Clockwise :
                    Clockwise[i] = v /\ Clockwise[j] = w /\ i < j})

PaidTo(results, w) ==
    SumSeq([k \in 1..Len(results) |->
               IF results[k].playerId = w THEN results[k].amount ELSE 0])

\* C9: a pot split among k tied winners gives each floor(amount / k), and one
\* of the amount mod k leftover chips to each of the tied winners nearest
\* clockwise to the dealer's left; the shares add up to the pot; 101 chips and
\* two winners give 51 to the nearer one and 50 to the other.
C9_OddChipsLeftOfDealer ==
    fpc = "done" =>
        LET pot == fin.pots[1]
            k == Cardinality(TiedWinners(pot))
        IN k >= 2 =>
            /\ \A w \in TiedWinners(pot) :
                  PaidTo(fout, w) = (pot.amount \div k)
                      + (IF WinnersBefore(pot, w) < pot.amount % k THEN 1 ELSE 0)
            /\ \A w \in Seats(fin.players) \ TiedWinners(pot) : PaidTo(fout, w) = 0
            /\ SumSeq([i \in 1..Len(fout) |-> fout[i].amount]) = pot.amount
            /\ (pot.amount = 101 /\ k = 2) =>
                  \A w \in TiedWinners(pot) :
                      PaidTo(fout, w) = IF WinnersBefore(pot, w) = 0 THEN 51 ELSE 50

\* 101 chips split between seat 0 and seat 2 with the dealer at seat 0 of
\* three: clockwise from the dealer's left the seats are 1, 2, 0, so seat 2
\* gets 51 and the dealer 50
C9_Witness ==
    /\ fpc = "done"
    /\ fin.pots[1].amount = 101
    /\ fin.dealerIndex = 0
    /\ TiedWinners(fin.pots[1]) = {0, 2}
    /\ PaidTo(fout, 2) = 51
    /\ PaidTo(fout, 0) = 50

\* --------------------------------------------------------- claims on the engine

HandPhases == {"HAND_INIT", "PRE_FLOP", "FLOP", "TURN", "RIVER", "SHOWDOWN"}

\* C2: in every state the engine emits from blind posting until the hand is
\* settled, state.pots is buildSidePots of the players of that state, and the
\* pot amounts add up to the sum of the players' totalBetThisHand.
C2_EmittedPotsAreCurrent ==
    \A k \in 1..Len(emitted) :
        emitted[k].phase \in HandPhases =>
            /\ emitted[k].pots = buildSidePots(emitted[k].players)
            /\ PotTotal(emitted[k].pots) = TotalWagered(emitted[k].players)

\* a state emitted after a raise on the flop was called by a shorter stack:
\* two pots, the players' bets differ
C2_Witness ==
    /\ pc = "bet"
    /\ Len(emitted) = 1
    /\ emitted[1].phase = "FLOP"
    /\ Len(emitted[1].pots) >= 2
    /\ \E i \in Seats(emitted[1].players) : emitted[1].players[i].status = "FOLDED"
    /\ PotTotal(emitted[1].pots) = TotalWagered(emitted[1].players)

\* C3: a player who had acted and matched the bet, and who then faces an
\* incomplete all-in raise, can only call the difference or fold. BET, RAISE
\* and a full all-in raise clear hasActedThisRound of every other ACTIVE
\* player, so the ACTIVE player who is asked while hasActedThisRound is set and
\* whose street bet is below currentBet is the one who faces an incomplete raise.
C3_NoRaiseAfterIncompleteAllIn ==
    (/\ pc = "await"
     /\ state.players[request.player].hasActedThisRound
     /\ state.players[request.player].currentBet < state.currentBet) =>
        LET p == state.players[request.player]
            owed == state.currentBet - p.currentBet
        IN /\ "RAISE" \notin Types(request.legalActions)
           /\ Types(request.legalActions) \subseteq
                  {"FOLD", "CALL"} \cup (IF p.chips <= owed THEN {"ALL_IN"} ELSE {})

\* C7: a betting round that is not ended by folds ends only when every ACTIVE
\* player has acted and every ACTIVE player's street bet equals currentBet,
\* and no action is requested once that holds.
C7_RoundEndsExactlyWhenSettled ==
    LET settled ==
            \A i \in Seats(state.players) : state.players[i].status = "ACTIVE" =>
                /\ state.players[i].hasActedThisRound
                /\ state.players[i].currentBet = state.currentBet
    IN /\ pc = "afterRound" => settled
       /\ pc = "await" => ~settled

\* a flop round with a bet ends with two ACTIVE players who matched it, after
\* another player went all-in for less
C7_Witness ==
    /\ pc = "afterRound"
    /\ state.phase = "FLOP"
    /\ state.currentBet > 0
    /\ Cardinality(getActivePlayers(state)) >= 2
    /\ \E i \in Seats(state.players) :
          /\ state.players[i].status = "ALL_IN"
          /\ state.players[i].currentBet > 0
          /\ state.players[i].currentBet < state.currentBet

PhaseRank(phase) ==
    CASE phase = "WAITING" -> 0
      [] phase = "HAND_INIT" -> 1
      [] phase = "PRE_FLOP" -> 2
      [] phase = "FLOP" -> 3
      [] phase = "TURN" -> 4
      [] phase = "RIVER" -> 5
      [] phase = "SHOWDOWN" -> 6
      [] phase = "CLEANUP" -> 7
      [] phase = "GAME_OVER" -> 8

\* a change of phase: forward within the hand and no further than CLEANUP, or
\* from CLEANUP to HAND_INIT of the next hand when two players are left and to
\* GAME_OVER when not, and no change after GAME_OVER
PhaseStepOK ==
    \/ state'.phase = state.phase
    \/ /\ state.phase \notin {"CLEANUP", "GAME_OVER"}
       /\ state'.phase # "GAME_OVER"
       /\ PhaseRank(state'.phase) > PhaseRank(state.phase)
       /\ state'.handNumber = IF state.phase = "WAITING" THEN 1 ELSE state.handNumber
       /\ state.phase = "WAITING" => state'.phase = "HAND_INIT"
    \/ /\ state.phase = "CLEANUP"
       /\ Cardinality({i \in Seats(state.players) : state.players[i].status # "BUSTED"}) >= 2
       /\ state'.phase = "HAND_INIT"
       /\ state'.handNumber = state.handNumber + 1
    \/ /\ state.phase = "CLEANUP"
       /\ Cardinality({i \in Seats(state.players) : state.players[i].status # "BUSTED"}) < 2
       /\ state'.phase = "GAME_OVER"

HeadsUpInit ==
    /\ Constructed([i \in 0..1 |-> STARTING_CHIPS])
    /\ FnIdle

\* the callback's answers in the heads-up hand: any type but a raise, which
\* could be repeated a hundred times on 400 chips
HeadsUpTypes == ActionTypes \ {"RAISE"}

\* and any small amount or the whole stack
HeadsUpAmounts == RawAmounts \cup {STARTING_CHIPS}

HeadsUpNext ==
    \/ StartGame
    \/ StartGameAgain
    \/ GameLoop(MaxHands)
    \/ EngineStep
    \/ Answer(HeadsUpTypes, HeadsUpAmounts)

SpecHeadsUp == HeadsUpInit /\ [][HeadsUpNext]_vars

\* the seat that is not seat
OtherSeat(seat) == 1 - seat

\* C11: in the first hand, heads-up with stacks 400/400 and blinds 2/4, the
\* dealer posts the small blind 2 and the other player the big blind 4; the
\* small blind is asked first and can call 2; after that call (both street
\* bets 4, the big blind has not acted) the big blind is asked and offered
\* CHECK; after that check no one is asked again in the round; and on the
\* flop reached this way (both players in for 4) the board has 3 cards and
\* the pots total 8.
C11_HeadsUpLimpedFlop ==
    LET sb == state.smallBlindIndex
        bb == state.bigBlindIndex
        P == state.players
    IN state.handNumber = 1 =>
       /\ pc = "dealHole" =>
            /\ sb = state.dealerIndex /\ bb = OtherSeat(sb)
            /\ P[sb].currentBet = 2 /\ P[sb].chips = 398
            /\ P[bb].currentBet = 4 /\ P[bb].chips = 396
            /\ state.currentBet = 4
       /\ (/\ pc = "await" /\ state.phase = "PRE_FLOP"
           /\ \A i \in Seats(P) : ~P[i].hasActedThisRound) =>
            /\ request.player = sb
            /\ P[sb].currentBet = 2
            /\ \E k \in 1..Len(request.legalActions) :
                  /\ request.legalActions[k].type = "CALL"
                  /\ request.legalActions[k].callAmount = 2
       /\ (/\ state.phase = "PRE_FLOP" /\ pc \in {"bet", "await"}
           /\ P[sb].currentBet = 4 /\ P[bb].currentBet = 4
           /\ P[sb].status = "ACTIVE" /\ P[bb].status = "ACTIVE"
           /\ P[sb].hasActedThisRound) =>
            IF P[bb].hasActedThisRound
            THEN pc = "bet" /\ RoundComplete(state)
            ELSE /\ ~RoundComplete(state)
                 /\ pc = "await" =>
                      /\ request.player = bb
                      /\ "CHECK" \in Types(request.legalActions)
       /\ (/\ state.phase = "FLOP" /\ pc = "round"
           /\ \A i \in Seats(P) : P[i].totalBetThisHand = 4) =>
            /\ state.communityCards = 3
            /\ PotTotal(state.pots) = 8
            /\ \A i \in Seats(P) : P[i].chips = 396 /\ P[i].status = "ACTIVE"

\* the flop of the limped hand
C11_Witness ==
    /\ state.handNumber = 1
    /\ state.phase = "FLOP"
    /\ pc = "round"
    /\ \A i \in Seats(state.players) : state.players[i].totalBetThisHand = 4
    /\ state.communityCards = 3
    /\ PotTotal(state.pots) = 8

\* ------------------------------------------ buildSidePots on deep commitments

\* total commitments of the three-way all-in
DeepBets == {50, 150, 400}

DeepPlayer == [totalBetThisHand : DeepBets, status : PotStatuses]

DeepPotsInit ==
    /\ Constructed(<<>>)
    /\ fin \in [0..2 -> DeepPlayer]
    /\ fout = <<>>
    /\ fpc = "in"

SpecDeepPots == DeepPotsInit /\ [][BuildPots]_vars

\* three players all-in for 50, 150 and 400, in any seats
ThreeWayAllIn ==
    /\ fpc = "done"
    /\ \A i \in Seats(fin) : fin[i].status = "ALL_IN"
    /\ {fin[i].totalBetThisHand : i \in Seats(fin)} = DeepBets

\* the seats in for at least level
InFor(level) == {i \in Seats(fin) : fin[i].totalBetThisHand >= level}

\* the eligible sets shrink from all three, to the two deeper, to the deepest
ThreePotsShrinking ==
    /\ Len(fout) = 3
    /\ fout[1].eligiblePlayerIds = InFor(50)
    /\ fout[2].eligiblePlayerIds = InFor(150)
    /\ fout[3].eligiblePlayerIds = InFor(400)

\* C12 as stated: commitments of 50, 150 and 400 give pots of 150, 300 and
\* 500 with shrinking eligible sets.
C12_PotsAsClaimed ==
    ThreeWayAllIn =>
        /\ ThreePotsShrinking
        /\ <<fout[1].amount, fout[2].amount, fout[3].amount>> = <<150, 300, 500>>

\* C12: three players all-in for 50, 150 and 400 give exactly 3 pots, of 150
\* (3 x 50), 200 (2 x 100) and 250 (1 x 250), whose eligible sets shrink from
\* all three players, to the two deeper stacks, to the deepest stack alone.
C12_ThreeWayAllInPots ==
    ThreeWayAllIn =>
        /\ ThreePotsShrinking
        /\ <<fout[1].amount, fout[2].amount, fout[3].amount>> = <<150, 200, 250>>

\* seat 0 in for 50, seat 1 for 150, seat 2 for 400
C12_Witness ==
    /\ ThreeWayAllIn
    /\ fin[0].totalBetThisHand = 50 /\ fin[1].totalBetThisHand = 150
    /\ fout = <<[amount |-> 150, eligiblePlayerIds |-> {0, 1, 2}],
                [amount |-> 200, eligiblePlayerIds |-> {1, 2}],
                [amount |-> 250, eligiblePlayerIds |-> {2}]>>

\* ------------------------------------- postflop bot decision (postflop-engine,
\* solver-bridge): fin is the call's arguments as the decision reads them, fout
\* the bridge's module state and what has been received and returned so far,
\* fpc the await at which getPostflopAction stands.

\* opponents still in the hand
MaxOpponents == 2

Sides == {"oop", "ip"}

NoResult == [none |-> TRUE]
NoAction == [none |-> TRUE]

\* getPostflopAction's fallback: check if possible, otherwise fold
FallbackAction(legalCheck) ==
    [type |-> IF legalCheck THEN "CHECK" ELSE "FOLD", amount |-> 0, from |-> "fallback"]

\* trySolverAction: the solver's player-to-act against the side of the bot
PlayerMismatchNever(result, expectedPlayer) == FALSE

PlayerMismatch(result, expectedPlayer) == result.currentPlayer # expectedPlayer

\* trySolverAction after solve has returned a result: null (FALSE) or an action
SolverActionUsable(result, expectedPlayer) ==
    /\ ~PlayerMismatch(result, expectedPlayer)
    /\ result.hasActions
    /\ result.handFound

PostflopInit ==
    /\ Constructed(<<>>)
    /\ fin \in [legalCheck : BOOLEAN, expectedPlayer : Sides,
                opponents : 0..MaxOpponents, wasmReady : BOOLEAN]
    /\ fout = [wasmReady |-> fin.wasmReady, strategy |-> NoResult,
               result |-> NoResult, action |-> NoAction]
    /\ fpc = "in"

\* trySolverAction up to the call of solve and ensureReady's first test
TrySolverAction ==
    /\ fpc = "in"
    /\ \E threw \in BOOLEAN :
          fpc' = IF fin.opponents = 0 \/ threw THEN "fallback"
                 ELSE IF fout.wasmReady THEN "init" ELSE "loadWasm"
    /\ UNCHANGED <<fin, fout, engineVars>>

\* ensureReady: await proxy.loadWasm() resolves or rejects
LoadWasm ==
    /\ fpc = "loadWasm"
    /\ \E ok \in BOOLEAN :
          /\ fout' = [fout EXCEPT !.wasmReady = ok]
          /\ fpc' = IF ok THEN "init" ELSE "fallback"
    /\ UNCHANGED <<fin, engineVars>>

\* solve: await proxy.init(...) answers no error, an error, or rejects
InitTree ==
    /\ fpc = "init"
    /\ \E r \in {"ok", "error", "throw"} :
          fpc' = IF r = "ok" THEN "resolveHistory" ELSE "fallback"
    /\ UNCHANGED <<fin, fout, engineVars>>

\* solve: await proxy.resolveHistory(...)
ResolveHistory ==
    /\ fpc = "resolveHistory"
    /\ \E r \in {"ok", "error", "throw"} :
          fpc' = IF r = "ok" THEN "solve" ELSE "fallback"
    /\ UNCHANGED <<fin, fout, engineVars>>

\* solve: await proxy.solve(...) answers (stopped by target, time budget or
\* iterations) or rejects
RunSolver ==
    /\ fpc = "solve"
    /\ \E r \in {"ok", "throw"} :
          fpc' = IF r = "ok" THEN "getStrategy" ELSE "fallback"
    /\ UNCHANGED <<fin, fout, engineVars>>

\* solve: await proxy.getStrategy(...) answers null, a strategy, or rejects
GetStrategy ==
    /\ fpc = "getStrategy"
    /\ \E r \in {"null", "throw", "ok"}, cp \in Sides, hasActions \in BOOLEAN :
          IF r = "ok"
          THEN /\ fout' = [fout EXCEPT !.strategy =
                              [currentPlayer |-> cp, hasActions |-> hasActions]]
               /\ fpc' = "getPrivateCards"
          ELSE /\ fpc' = "fallback"
               /\ UNCHANGED fout
    /\ UNCHANGED <<fin, engineVars>>

\* solve: await proxy.getPrivateCards(...) answers or rejects; solve returns
GetPrivateCards ==
    /\ fpc = "getPrivateCards"
    /\ \E ok \in BOOLEAN, handFound \in BOOLEAN :
          IF ok
          THEN /\ fout' = [fout EXCEPT !.result =
                              [currentPlayer |-> fout.strategy.currentPlayer,
                               hasActions |-> fout.strategy.hasActions,
                               handFound |-> handFound]]
               /\ fpc' = "solved"
          ELSE /\ fpc' = "fallback"
               /\ UNCHANGED fout
    /\ UNCHANGED <<fin, engineVars>>

\* trySolverAction after solve has returned a result
UseSolverResult ==
    /\ fpc = "solved"
    /\ IF SolverActionUsable(fout.result, fin.expectedPlayer)
       THEN /\ fout' = [fout EXCEPT !.action = [from |-> "solver"]]
            /\ fpc' = "done"
       ELSE /\ fpc' = "fallback"
            /\ UNCHANGED fout
    /\ UNCHANGED <<fin, engineVars>>

\* getPostflopAction after trySolverAction has returned null
Fallback ==
    /\ fpc = "fallback"
    /\ fout' = [fout EXCEPT !.action = FallbackAction(fin.legalCheck)]
    /\ fpc' = "done"
    /\ UNCHANGED <<fin, engineVars>>

\* the steps the solver worker's answers trigger
WorkerAnswer ==
    \/ LoadWasm
    \/ InitTree
    \/ ResolveHistory
    \/ RunSolver
    \/ GetStrategy
    \/ GetPrivateCards

\* the synchronous steps of the decision itself
DecisionStep == TrySolverAction \/ UseSolverResult \/ Fallback

PostflopNext == WorkerAnswer \/ DecisionStep

\* The decision's own steps always run; nothing makes the worker answer: the
\* bridge awaits its promises without a timer of its own.
SpecPostflop == PostflopInit /\ [][PostflopNext]_vars /\ WF_vars(DecisionStep)

\* C13: every postflop decision terminates, getPostflopAction eventually
\* returns an action, whether the solver succeeds, fails to load, reports an
\* error, throws, or does not answer.
C13_DecisionTerminates == <>(fpc = "done")

\* C14: when the player-to-act of the solver's result differs from the side
\* expected for the bot, no solver action is used and getPostflopAction
\* returns its fallback, CHECK when legal and FOLD otherwise.
C14_MismatchFallsBack ==
    (/\ fpc = "done"
     /\ fout.result # NoResult
     /\ fout.result.currentPlayer # fin.expectedPlayer) =>
        fout.action = FallbackAction(fin.legalCheck)

\* the solver answered everything, with actions and the bot's hand, for the
\* other side, and the decision was the fallback
C14_Witness ==
    /\ fpc = "done"
    /\ fout.result # NoResult
    /\ fout.result.currentPlayer # fin.expectedPlayer
    /\ fout.result.hasActions /\ fout.result.handFound
    /\ fout.action = FallbackAction(fin.legalCheck)

\* ------------------------------------------------------- engine: the snapshots

\* emitState and getState hand out { ...this.state }: a new object with the
\* scalar fields copied and the array fields shared with the engine. players
\* is the one array built by the constructor, whose Player objects the engine
\* changes in place; communityCards is the array initHand created for the
\* hand, to which dealCommunityCards pushes; pots and winners are replaced by
\* new arrays whenever they change. What an observer reads in snapshot once
\* the engine's state is st:
SnapshotReadAt(snapshot, st) ==
    [snapshot EXCEPT
        !.players = st.players,
        !.communityCards = IF snapshot.handNumber = st.handNumber
                           THEN st.communityCards ELSE @]

\* C15: a state handed to onStateChange is an immutable snapshot: no later
\* step of the engine changes a value reachable from it.
C15_SnapshotsImmutable ==
    [][\A k \in 1..Len(emitted) : SnapshotReadAt(emitted[k], state') = emitted[k]]_vars

\* ------------------------------------------------- engine: the action request

\* C16: the engine has at most one action request outstanding, asks the
\* decision callback once per turn, and changes nothing in GameState between
\* issuing a request and receiving its answer, also when startGame is called
\* again meanwhile: a request is outstanding exactly while runBettingRound
\* awaits it, it is for an ACTIVE player whose turn it is, and while it is
\* outstanding no step issues another request or changes the state, until
\* the step that receives the answer and withdraws the request.
C16_OneRequestNoMutation ==
    /\ [](/\ (request # NoRequest) <=> (pc = "await")
          /\ pc = "await" =>
                /\ state.activePlayerIndex = request.player
                /\ state.players[request.player].status = "ACTIVE"
                /\ request.legalActions
                     = calculateLegalActions(state.players[request.player], state))
    /\ [][request # NoRequest =>
             \/ request' = request /\ state' = state /\ pc' = pc
             \/ request' = NoRequest /\ pc' # "await"]_vars
    /\ [][request' # NoRequest /\ request' # request =>
             request = NoRequest /\ pc = "bet" /\ state'.activePlayerIndex = request'.player]_vars

\* a second player of the round is being asked
C16_Witness ==
    /\ pc = "await"
    /\ request # NoRequest
    /\ \E i \in Seats(state.players) :
          i # request.player /\ state.players[i].hasActedThisRound

\* ----------------------------------------------------- hand evaluator (deck.ts)
\* A card is [rank, suit], a hand the set of its cards, and an EvaluatedHand
\* its values array: values[0], here values[1], is the HandRank.

ROYAL_FLUSH == 1
STRAIGHT_FLUSH == 2
FOUR_OF_A_KIND == 3
FULL_HOUSE == 4
FLUSH == 5
STRAIGHT == 6
THREE_OF_A_KIND == 7
TWO_PAIR == 8
ONE_PAIR == 9
HIGH_CARD == 10

\* cards.map(c => c.rank).sort((a, b) => b - a)
RECURSIVE RanksDesc(_)
RanksDesc(cards) ==
    IF cards = {} THEN <<>>
    ELSE LET c == CHOOSE x \in cards : \A y \in cards : y.rank <= x.rank
         IN <<c.rank>> \o RanksDesc(cards \ {c})

\* [...new Set(sortedRanks)].sort((a, b) => b - a)
RECURSIVE UniqueDesc(_)
UniqueDesc(rankSet) ==
    IF rankSet = {} THEN <<>>
    ELSE LET m == CHOOSE x \in rankSet : \A y \in rankSet : y <= x
         IN <<m>> \o UniqueDesc(rankSet \ {m})

\* the wheel test of getStraightHighCard
IsWheelAceHigh(unique) == FALSE

IsWheel(unique) == unique = <<14, 5, 4, 3, 2>>

getStraightHighCard(sortedRanks) ==
    LET unique == UniqueDesc({sortedRanks[i] : i \in 1..Len(sortedRanks)})
    IN IF Len(unique) < 5 THEN 0
       ELSE IF unique[1] - unique[5] = 4 THEN unique[1]
       ELSE IF IsWheel(unique) THEN 5
       ELSE 0

\* the frequency map's entries <<rank, count>>, by count then rank, descending
RECURSIVE GroupsFrom(_, _)
GroupsFrom(rankSet, cards) ==
    IF rankSet = {} THEN <<>>
    ELSE LET count(r) == Cardinality({c \in cards : c.rank = r})
             g == CHOOSE x \in rankSet : \A y \in rankSet :
                      \/ count(y) < count(x)
                      \/ count(y) = count(x) /\ y <= x
         IN <<(<<g, count(g)>>)>> \o GroupsFrom(rankSet \ {g}, cards)

\* groups.slice(from).map(g => g[0]).sort((a, b) => b - a)
KickersDesc(groups, from) == UniqueDesc({groups[i][1] : i \in from..Len(groups)})

evaluateFiveCards(cards) ==
    LET ranks == RanksDesc(cards)
        isFlush == \A c, d \in cards : c.suit = d.suit
        straightHighCard == getStraightHighCard(ranks)
        isStraight == straightHighCard > 0
        groups == GroupsFrom({c.rank : c \in cards}, cards)
    IN IF isFlush /\ isStraight
       THEN IF straightHighCard = 14 THEN <<ROYAL_FLUSH, 14>>
            ELSE <<STRAIGHT_FLUSH, straightHighCard>>
       ELSE IF groups[1][2] = 4
       THEN <<FOUR_OF_A_KIND, groups[1][1], groups[2][1]>>
       ELSE IF groups[1][2] = 3 /\ groups[2][2] = 2
       THEN <<FULL_HOUSE, groups[1][1], groups[2][1]>>
       ELSE IF isFlush THEN <<FLUSH>> \o ranks
       ELSE IF isStraight THEN <<STRAIGHT, straightHighCard>>
       ELSE IF groups[1][2] = 3
       THEN <<THREE_OF_A_KIND, groups[1][1]>> \o KickersDesc(groups, 2)
       ELSE IF groups[1][2] = 2 /\ groups[2][2] = 2
       THEN <<TWO_PAIR, Max(groups[1][1], groups[2][1]),
              Min(groups[1][1], groups[2][1]), groups[3][1]>>
       ELSE IF groups[1][2] = 2
       THEN <<ONE_PAIR, groups[1][1]>> \o KickersDesc(groups, 2)
       ELSE <<HIGH_CARD>> \o ranks

\* the 5-card combinations of the cards: COMBINATIONS_7_5, getCombinations
FiveOf(cards) == {five \in SUBSET cards : Cardinality(five) = 5}

\* a comparison that looks at the HandRank alone
BetterByRankOnly(evaluated, best) == evaluated[1] < best[1]

\* the test that replaces best: compareEvaluatedHands(evaluated, best) > 0
Better(evaluated, best) == compareEvaluatedHands(evaluated, best) > 0

\* the loop of evaluateBestHand over the combinations
RECURSIVE BestOver(_, _)
BestOver(best, combos) ==
    IF combos = {} THEN best
    ELSE LET combo == CHOOSE x \in combos : TRUE
             evaluated == evaluateFiveCards(combo)
         IN BestOver(IF best = <<>> \/ Better(evaluated, best)
                     THEN evaluated ELSE best,
                     combos \ {combo})

\* evaluateBestHand on the hole and community cards together (5 to 7 cards)
evaluateBestHand(allCards) ==
    IF Cardinality(allCards) = 5 THEN evaluateFiveCards(allCards)
    ELSE BestOver(<<>>, FiveOf(allCards))

\* ---------------------------------------------- evaluateFiveCards on any hand

\* the suits a 5-card hand is drawn from
MaxSuits == 2

Ranks == 2..14

FiveCardDeck == [rank : Ranks, suit : 1..MaxSuits]

FiveCardsInit ==
    /\ Constructed(<<>>)
    /\ fin \in FiveOf(FiveCardDeck)
    /\ fout = <<>>
    /\ fpc = "in"

EvaluateFive ==
    /\ fpc = "in"
    /\ fout' = evaluateFiveCards(fin)
    /\ fpc' = "done"
    /\ UNCHANGED <<fin, engineVars>>

SpecFiveCards == FiveCardsInit /\ [][EvaluateFive]_vars

RankSet(cards) == {c.rank : c \in cards}

Suited(cards) == \A c, d \in cards : c.suit = d.suit

\* the wheels of the deck
Wheels ==
    {{[rank |-> r, suit |-> suitOf[r]] : r \in {14, 2, 3, 4, 5}} :
        suitOf \in [{14, 2, 3, 4, 5} -> 1..MaxSuits]}

\* C17: A-2-3-4-5 is evaluated as a straight, or a straight flush when
\* suited, whose high card is 5; and any straight from 6-high to ace-high
\* beats, under compareEvaluatedHands, every wheel (every unsuited wheel when
\* it is not itself suited).
C17_WheelIsFiveHigh ==
    fpc = "done" =>
        /\ RankSet(fin) = {14, 2, 3, 4, 5} =>
              fout = <<IF Suited(fin) THEN STRAIGHT_FLUSH ELSE STRAIGHT, 5>>
        /\ \A high \in 6..14 :
              RankSet(fin) = (high - 4)..high =>
                 \A w \in Wheels :
                    (Suited(w) => Suited(fin)) =>
                       /\ compareEvaluatedHands(evaluateFiveCards(w), fout) < 0
                       /\ compareEvaluatedHands(fout, evaluateFiveCards(w)) > 0

\* a suited wheel, evaluated as a 5-high straight flush
C17_Witness ==
    /\ fpc = "done"
    /\ RankSet(fin) = {14, 2, 3, 4, 5}
    /\ Suited(fin)
    /\ fout = <<STRAIGHT_FLUSH, 5>>

\* ------------------------------------------- evaluateBestHand on 5 to 7 cards

\* one suit with the ranks of the wheel, the 6-high and the ace-high straight,
\* and the other three suits with enough ranks for pairs up to four of a kind
BestHandDeck ==
    [rank : {2, 3, 4, 5, 6, 10, 11, 12, 13, 14}, suit : {1}]
        \cup [rank : {2, 14}, suit : 2..4] \cup {[rank |-> 3, suit |-> 2]}

BestHandInit ==
    /\ Constructed(<<>>)
    /\ fin \in {cards \in SUBSET BestHandDeck : Cardinality(cards) \in 5..7}
    /\ fout = <<>>
    /\ fpc = "in"

EvaluateBest ==
    /\ fpc = "in"
    /\ fout' = evaluateBestHand(fin)
    /\ fpc' = "done"
    /\ UNCHANGED <<fin, engineVars>>

SpecBestHand == BestHandInit /\ [][EvaluateBest]_vars

\* the category of five cards by the rules of poker, from the number of
\* distinct ranks, the largest group, the suits and the run of ranks
StandardCategory(five) ==
    LET rs == RankSet(five)
        n == Cardinality(rs)
        largest == CHOOSE k \in 1..4 :
                      /\ \E r \in rs : Cardinality({c \in five : c.rank = r}) = k
                      /\ \A r \in rs : Cardinality({c \in five : c.rank = r}) <= k
        run == \/ \E low \in 2..10 : rs = low..(low + 4)
               \/ rs = {14, 2, 3, 4, 5}
    IN CASE Suited(five) /\ rs = 10..14 -> ROYAL_FLUSH
         [] Suited(five) /\ run -> STRAIGHT_FLUSH
         [] n = 2 /\ largest = 4 -> FOUR_OF_A_KIND
         [] n = 2 /\ largest = 3 -> FULL_HOUSE
         [] Suited(five) /\ ~run -> FLUSH
         [] ~Suited(five) /\ run -> STRAIGHT
         [] n = 3 /\ largest = 3 -> THREE_OF_A_KIND
         [] n = 3 /\ largest = 2 -> TWO_PAIR
         [] n = 4 -> ONE_PAIR
         [] n = 5 /\ ~Suited(five) /\ ~run -> HIGH_CARD

\* C18: for 5, 6 or 7 distinct cards the result of evaluateBestHand is the
\* evaluation of one of the 5-card subsets, no 5-card subset compares above
\* it under compareEvaluatedHands, its HandRank is the standard category
\* of that subset, and no subset has a better standard category.
C18_BestOfAllFiveCardSubsets ==
    fpc = "done" =>
        /\ \E five \in FiveOf(fin) :
              /\ fout = evaluateFiveCards(five)
              /\ fout[1] = StandardCategory(five)
        /\ \A five \in FiveOf(fin) :
              /\ compareEvaluatedHands(fout, evaluateFiveCards(five)) >= 0
              /\ compareEvaluatedHands(evaluateFiveCards(five), fout) <= 0
              /\ fout[1] <= StandardCategory(five)

\* seven cards holding a straight, a pair and a flush: the flush is kept
C18_Witness ==
    /\ fpc = "done"
    /\ Cardinality(fin) = 7
    /\ fout[1] = FLUSH
    /\ \E five \in FiveOf(fin) : StandardCategory(five) = STRAIGHT
    /\ \E five \in FiveOf(fin) : StandardCategory(five) = ONE_PAIR

\* --------------------------------- solver card ids (gto/solver/card-adapter.ts)

Suits == {"hearts", "diamonds", "clubs", "spades"}

SUIT_TO_SOLVER ==
    [suit \in Suits |->
        CASE suit = "clubs" -> 0
          [] suit = "diamonds" -> 1
          [] suit = "hearts" -> 2
          [] suit = "spades" -> 3]

\* indexed from 1 here, from 0 in the source
SOLVER_TO_SUIT == <<"clubs", "diamonds", "hearts", "spades">>

cardToSolverId(card) == (card.rank - 2) * 4 + SUIT_TO_SOLVER[card.suit]

solverIdToCard(id) ==
    [rank |-> (id \div 4) + 2, suit |-> SOLVER_TO_SUIT[(id % 4) + 1]]

\* the formula applied to the ids in the order given
comboIndexAsGiven(solverIdA, solverIdB) ==
    52 * solverIdA - (solverIdA * (solverIdA + 1)) \div 2
        + solverIdB - solverIdA - 1

comboIndex(solverIdA, solverIdB) ==
    LET c1 == Min(solverIdA, solverIdB)
        c2 == Max(solverIdA, solverIdB)
    IN 52 * c1 - (c1 * (c1 + 1)) \div 2 + c2 - c1 - 1

SolverDeck == [rank : Ranks, suit : Suits]

\* the two hole cards, in either order
ComboInit ==
    /\ Constructed(<<>>)
    /\ fin \in {hole \in SolverDeck \X SolverDeck : hole[1] # hole[2]}
    /\ fout = <<>>
    /\ fpc = "in"

EncodeCombo ==
    /\ fpc = "in"
    /\ LET idA == cardToSolverId(fin[1])
           idB == cardToSolverId(fin[2])
       IN fout' = [ids |-> <<idA, idB>>,
                   cards |-> <<solverIdToCard(idA), solverIdToCard(idB)>>,
                   index |-> comboIndex(idA, idB)]
    /\ fpc' = "done"
    /\ UNCHANGED <<fin, engineVars>>

SpecCombo == ComboInit /\ [][EncodeCombo]_vars

\* C19: each card's id lies in 0..51 and decodes to the card, each id encodes
\* back from its card; the index of two distinct ids lies in 0..1325, is the
\* same in both orders, and is the index of no other unordered pair - so the
\* 1326 pairs fill 0..1325 and every index identifies exactly one pair.
C19_ComboIndexReversible ==
    fpc = "done" =>
        /\ \A k \in 1..2 :
              /\ fout.ids[k] \in 0..51
              /\ fout.cards[k] = fin[k]
              /\ cardToSolverId(solverIdToCard(fout.ids[k])) = fout.ids[k]
        /\ fout.ids[1] # fout.ids[2]
        /\ fout.index \in 0..1325
        /\ fout.index = comboIndex(fout.ids[2], fout.ids[1])
        /\ \A a \in 0..51 : \A b \in (a + 1)..51 :
              comboIndex(a, b) = fout.index
                  => {a, b} = {fout.ids[1], fout.ids[2]}

\* the ace and king of spades given high card first: ids 51 and 47, the pair
\* with the larger id first
C19_Witness ==
    /\ fpc = "done"
    /\ fin = <<[rank |-> 14, suit |-> "spades"], [rank |-> 13, suit |-> "spades"]>>
    /\ fout.ids = <<51, 47>>
    /\ fout.index = comboIndex(47, 51)

\* ------------------------------- preflop strategy chart (preflop strategy loader)
\* Frequencies are counted in millionths, the size of EPSILON, and summed
\* exactly. A JSON value is [tag, n]: a number n, NaN, or a string.

EPSILON == 1

One == 1000000 * EPSILON

Num(n) == [tag |-> "num", n |-> n]

NotANumber == [tag |-> "NaN", n |-> 0]

Text == [tag |-> "str", n |-> 0]

RangeAction(fold, call, raise, allIn) ==
    [fold |-> fold, call |-> call, raise |-> raise, allIn |-> allIn]

Frequencies == {"fold", "call", "raise", "allIn"}

Abs(n) == IF n < 0 THEN -n ELSE n

\* the test with the check of each single frequency left out
isValidRangeActionSumOnly(value) ==
    /\ \A f \in Frequencies : value[f].tag = "num"
    /\ Abs(value.fold.n + value.call.n + value.raise.n + value.allIn.n - One)
           <= One \div 100

isValidRangeAction(value) ==
    /\ \A f \in Frequencies : value[f].tag # "str"
    /\ ~ \E f \in Frequencies :
            \/ value[f].tag = "NaN"
            \/ value[f].n < -EPSILON
            \/ value[f].n > One + EPSILON
    /\ Abs(value.fold.n + value.call.n + value.raise.n + value.allIn.n - One)
           <= One \div 100

\* the key warnOnce is called with for a dropped hand
InvalidHandKey(id, handKey) == <<"invalid-hand", id, handKey>>

\* validateSpot: null, here [valid |-> FALSE], for a spot of the wrong shape;
\* otherwise the spot with the hands that pass isValidRangeAction
validateSpot(raw) ==
    IF raw.shape # "ok" THEN [valid |-> FALSE, warned |-> {}]
    ELSE LET good == {k \in DOMAIN raw.hands : isValidRangeAction(raw.hands[k])}
         IN [valid |-> TRUE,
             id |-> raw.id,
             hands |-> [k \in good |-> raw.hands[k]],
             warned |-> {InvalidHandKey(raw.id, k) : k \in DOMAIN raw.hands \ good}]

RECURSIVE ValidatedSpots(_)
ValidatedSpots(spots) ==
    IF spots = <<>> THEN <<>>
    ELSE LET spot == validateSpot(Head(spots))
         IN (IF spot.valid THEN <<[id |-> spot.id, hands |-> spot.hands]>> ELSE <<>>)
                \o ValidatedSpots(Tail(spots))

\* the keys warnOnce has been called with when the spots have been walked
WarnedKeys(spots) ==
    UNION {validateSpot(spots[i]).warned : i \in 1..Len(spots)}
        \cup {<<"invalid-spot", 0, 0>> :
                 i \in {j \in 1..Len(spots) : ~validateSpot(spots[j]).valid}}

\* validateStrategyFile: throws on a root without version, source, assumptions
\* or spots array, and when no spot is valid
validateStrategyFile(raw) ==
    IF raw.root # "ok"
    THEN [threw |-> TRUE, spots |-> <<>>, warnOnceKeys |-> {}]
    ELSE LET validatedSpots == ValidatedSpots(raw.spots)
         IN [threw |-> validatedSpots = <<>>,
             spots |-> validatedSpots,
             warnOnceKeys |-> WarnedKeys(raw.spots)]

MaxSpots == 2

MaxSpotHands == 2

Roots == {"ok", "notObject", "noVersion", "noSource", "noAssumptions", "noSpotsArray"}

SpotShapes == {"ok", "badHeroPosition"}

\* hands whose sums stay off the edge of the tolerance, where the rounding of
\* the floating-point sum would decide
HandEntries ==
    {RangeAction(Num(One), Num(0), Num(0), Num(0)),
     RangeAction(Num(One \div 2), Num(One \div 2 - One \div 200), Num(0), Num(0)),
     RangeAction(Num(One \div 2), Num(One \div 2 - One \div 50), Num(0), Num(0)),
     RangeAction(Num(One + One \div 200), Num(0), Num(0), Num(0)),
     RangeAction(Num(One), Num(-EPSILON), Num(0), Num(EPSILON)),
     RangeAction(NotANumber, Num(One), Num(0), Num(0)),
     RangeAction(Text, Num(One), Num(0), Num(0))}

SeqsUpTo(S, n) == UNION {[1..len -> S] : len \in 0..n}

\* the raw JSON: the k-th hand of a spot stands for its k-th hand key, and a
\* spot's id is its place in the file
RawCharts ==
    {raw \in [root : Roots,
              spots : SeqsUpTo([id : 1..MaxSpots, shape : SpotShapes,
                                hands : SeqsUpTo(HandEntries, MaxSpotHands)],
                               MaxSpots)] :
        \A i \in 1..Len(raw.spots) : raw.spots[i].id = i}

ChartInit ==
    /\ Constructed(<<>>)
    /\ fin \in RawCharts
    /\ fout = <<>>
    /\ fpc = "in"

LoadChart ==
    /\ fpc = "in"
    /\ fout' = validateStrategyFile(fin)
    /\ fpc' = "done"
    /\ UNCHANGED <<fin, engineVars>>

SpecChart == ChartInit /\ [][LoadChart]_vars

\* the hand entries of the raw chart and of the loaded one, as <<spot, key>>
RawEntries == {<<i, k>> : i \in 1..MaxSpots, k \in 1..MaxSpotHands} \cap
    {e \in (1..MaxSpots) \X (1..MaxSpotHands) :
        e[1] <= Len(fin.spots) /\ e[2] <= Len(fin.spots[e[1]].hands)}

KeptEntries ==
    {e \in RawEntries :
        \E j \in 1..Len(fout.spots) :
            fout.spots[j].id = e[1] /\ e[2] \in DOMAIN fout.spots[j].hands}

RawHand(e) == fin.spots[e[1]].hands[e[2]]

AllNumbers(hand) == \A f \in Frequencies : hand[f].tag = "num"

Total(hand) == hand.fold.n + hand.call.n + hand.raise.n + hand.allIn.n

\* non-negative frequencies that sum to 1 within the tolerance of 0.01
NonNegativeSumOne(hand) ==
    /\ AllNumbers(hand)
    /\ \A f \in Frequencies : hand[f].n >= 0
    /\ Total(hand) \in (One - One \div 100)..(One + One \div 100)

\* each frequency within EPSILON of the range 0..1, and the sum within 0.01
\* of 1
WithinRangeSumOne(hand) ==
    /\ AllNumbers(hand)
    /\ \A f \in Frequencies : hand[f].n \in (0 - EPSILON)..(One + EPSILON)
    /\ Total(hand) \in (One - One \div 100)..(One + One \div 100)

\* C20 as stated: the entries kept are exactly those with non-negative
\* frequencies summing to 1 within tolerance, and loading fails only when the
\* chart has no such entry.
C20_AsClaimed ==
    fpc = "done" =>
        /\ KeptEntries = {e \in RawEntries : NonNegativeSumOne(RawHand(e))}
        /\ fout.threw => ~ \E e \in RawEntries : NonNegativeSumOne(RawHand(e))

\* C20: loading fails exactly when the root lacks its version, source,
\* assumptions or spots array or no spot has a valid shape; otherwise the
\* loaded spots are the well-shaped ones in file order, and the entries kept
\* are exactly the hands of those spots whose four frequencies are numbers
\* within EPSILON of 0..1 that sum to 1 within 0.01, each other hand being
\* dropped alone with its warning.
C20_ChartLoading ==
    fpc = "done" =>
        LET wellShaped == {i \in 1..Len(fin.spots) : fin.spots[i].shape = "ok"}
        IN /\ fout.threw <=> (fin.root # "ok" \/ wellShaped = {})
           /\ ~fout.threw =>
                 /\ {fout.spots[j].id : j \in 1..Len(fout.spots)} = wellShaped
                 /\ \A j, k \in 1..Len(fout.spots) :
                       j < k => fout.spots[j].id < fout.spots[k].id
                 /\ KeptEntries = {e \in RawEntries :
                                     /\ e[1] \in wellShaped
                                     /\ WithinRangeSumOne(RawHand(e))}
                 /\ \A e \in RawEntries :
                       e[1] \in wellShaped /\ e \notin KeptEntries
                           => InvalidHandKey(e[1], e[2]) \in fout.warnOnceKeys

\* a chart that loads with one hand kept and one dropped from the same spot
\* and a second spot dropped for its shape
C20_Witness ==
    /\ fpc = "done"
    /\ ~fout.threw
    /\ Len(fin.spots) = 2
    /\ Len(fout.spots) = 1
    /\ Cardinality(KeptEntries) = 1
    /\ \E e \in RawEntries :
          /\ e \notin KeptEntries
          /\ fin.spots[e[1]].shape = "ok"
          /\ NonNegativeSumOne(RawHand(e))

\* ------------------------------------------------------ engine: chips in play

\* the control positions of a hand from blind posting until the pots are awarded
WageringPositions ==
    {"postBlinds", "dealHole", "phase", "round", "bet", "await", "afterRound",
     "runout", "showdown", "award"}

SumChips(st) == SumOver([i \in Seats(st.players) |-> st.players[i].chips], Seats(st.players))

\* the chips on the table: the stacks, and the wagers while they are not awarded
ChipsInPlay(st, position) ==
    SumChips(st) + (IF position \in WageringPositions THEN TotalWagered(st.players) ELSE 0)

\* C21: no step creates or loses chips: the stacks plus the wagers of the hand
\* stay the same from blind posting until the pots are awarded, and the stacks
\* after the award add up to what they were before the hand.
C21_ChipsConserved ==
    [][ChipsInPlay(state', pc') = ChipsInPlay(state, pc)]_vars

\* ------------------------------------------------- engine: reopening the action

\* the other players who are ACTIVE once the action of seat is applied
OthersActive(st, seat) == getActivePlayers(st) \ {seat}

\* what applyAction does to the acted flags of the others, for the action the
\* engine applies when the callback answers the outstanding request with raw
AppliedOK(raw) ==
    LET seat == request.player
        player == state.players[seat]
        action == validateAction(raw, request.legalActions, player, state)
        after == applyAction(state, seat, action)
        raisedBy == player.currentBet + player.chips - state.currentBet
        reopens == \/ action.type \in {"BET", "RAISE"}
                   \/ action.type = "ALL_IN" /\ raisedBy >= state.lastRaiseIncrement
    IN /\ reopens =>
             /\ \A i \in OthersActive(after, seat) : ~after.players[i].hasActedThisRound
             /\ after.currentBet > state.currentBet
       /\ (action.type = "ALL_IN" /\ ~reopens) =>
             /\ \A i \in Seats(state.players) \ {seat} :
                   after.players[i].hasActedThisRound = state.players[i].hasActedThisRound
             /\ after.lastRaiseIncrement = state.lastRaiseIncrement

\* in the loop of runBettingRound an ACTIVE player's acted flag is set, and an
\* ACTIVE player leaves the round, only by the answer to a request made to
\* that player
ActedOnlyWhenAsked ==
    \A i \in Seats(state.players) :
        (/\ pc \in {"bet", "await"}
         /\ state.players[i].status = "ACTIVE"
         /\ \/ ~state.players[i].hasActedThisRound /\ state'.players[i].hasActedThisRound
            \/ state'.players[i].status \in {"FOLDED", "ALL_IN"})
        => (pc = "await" /\ request.player = i)

\* C22: BET, RAISE and an ALL_IN that raises currentBet by at least
\* lastRaiseIncrement clear hasActedThisRound of every other ACTIVE player;
\* an ALL_IN that raises by less or not at all clears no flag and leaves
\* lastRaiseIncrement alone.  A cleared flag is set again only by that
\* player's answer to a request, and a betting round ends without folds only
\* when every ACTIVE player's flag is set, and by folds only when no ACTIVE
\* player with a cleared flag owes chips: each is asked again before the end.
C22_ReopenClearsActedFlags ==
    /\ [](pc = "await" =>
             \A t \in ActionTypes, a \in RawAmounts : AppliedOK([type |-> t, amount |-> a]))
    /\ [](pc = "afterRound" =>
             \A i \in getActivePlayers(state) : state.players[i].hasActedThisRound)
    /\ [](pc = "award" =>
             \A i \in getActivePlayers(state) :
                 \/ state.players[i].hasActedThisRound
                 \/ state.players[i].currentBet = state.currentBet)
    /\ [][ActedOnlyWhenAsked]_vars

\* on the flop the first to act has checked, a later player went all-in for a
\* full bet, and the first to act is to be asked again
C22_Witness ==
    /\ pc = "bet"
    /\ state.phase = "FLOP"
    /\ LET first == actingOrder[1] IN
          /\ state.players[first].status = "ACTIVE"
          /\ ~state.players[first].hasActedThisRound
          /\ state.players[first].currentBet = 0
          /\ \E j \in Seats(state.players) :
                /\ state.players[j].status = "ALL_IN"
                /\ state.players[j].currentBet = state.currentBet
                /\ state.currentBet >= BIG_BLIND
                /\ state.lastRaiseIncrement = state.currentBet

\* ------------------------------------------------------- engine: termination

\* C23: when every request is answered, every betting round that is begun
\* ends, by folds or with the round complete, and every hand that is begun
\* reaches CLEANUP; the states being finitely many, a round that ends has
\* made finitely many requests.
C23_RoundsAndHandsTerminate ==
    /\ (pc = "round") ~> (pc \in {"afterRound", "award"})
    /\ (pc = "await") ~> (pc \in {"afterRound", "award"})
    /\ (pc = "initHand") ~> (pc = "cleanupCheck" /\ state.phase = "CLEANUP")

\* a round that ended although a player who is all-in never matched the bet
C23_Witness ==
    /\ pc = "afterRound"
    /\ getActivePlayers(state) # {}
    /\ \E i \in Seats(state.players) :
          /\ state.players[i].status = "ALL_IN"
          /\ state.players[i].currentBet < state.currentBet

\* ------------------------------------------------ engine: bets owed to the table

\* an ACTIVE player whose street bet is below the table's currentBet
OwesChips(st, i) ==
    st.players[i].status = "ACTIVE" /\ st.players[i].currentBet < st.currentBet

\* C24: no step deals a community card, and showdown does not take place,
\* while some ACTIVE player's street bet is below currentBet.
C24_NoBoardWhileOwing ==
    [][(\/ state'.communityCards > state.communityCards
        \/ pc = "showdown" /\ pc' = "cleanup")
       => ~ \E i \in Seats(state.players) : OwesChips(state, i)]_vars

\* ------------------------------------------------- engine: the last player left

\* the players of st who have not folded and are not busted
NotFolded(st) == {i \in Seats(st.players) : st.players[i].status \in {"ACTIVE", "ALL_IN"}}

\* C25: once one unfolded player is left before the pots are awarded, the
\* engine is at the award: the next step of the hand requests no action and
\* deals no card, credits that player's stack with everything wagered in the
\* hand, which is the sum of the pots, and leads to cleanup; and no step of
\* that hand requests an action or deals a card afterwards.
C25_LastPlayerIsAwarded ==
    /\ []((pc \in WageringPositions /\ Cardinality(NotFolded(state)) = 1) => pc = "award")
    /\ [][(pc = "award" /\ Cardinality(NotFolded(state)) = 1) =>
             LET winner == CHOOSE i \in NotFolded(state) : TRUE
             IN /\ pc' = "cleanup"
                /\ request' = NoRequest
                /\ state'.communityCards = state.communityCards
                /\ state'.players[winner].chips
                       = state.players[winner].chips + TotalWagered(state.players)
                /\ PotTotal(state'.pots) = TotalWagered(state.players)
                /\ \A i \in Seats(state.players) \ {winner} :
                       state'.players[i].chips = state.players[i].chips]_vars
    /\ [][(/\ pc \in {"cleanup", "cleanupCheck", "loop", "stopped"}
           /\ state'.handNumber = state.handNumber) =>
             /\ request' = NoRequest
             /\ state'.communityCards = state.communityCards]_vars

\* the two others folded, one of them having put in more than the winner,
\* who has been credited with all of it
C25_Witness ==
    /\ pc = "cleanup"
    /\ state.communityCards = 0
    /\ Cardinality(NotFolded(state)) = 1
    /\ Len(state.winners) = 1
    /\ state.winners[1].amount = TotalWagered(state.players)
    /\ Len(state.pots) = 2
    /\ Cardinality({i \in Seats(state.players) : state.players[i].status = "FOLDED"}) = 2

\* --------------------------------------------------- engine: the all-in run-out

\* at least two players unfolded, at most one of them ACTIVE
NoOneLeftToBet(st) ==
    /\ Cardinality(NotFolded(st)) >= 2
    /\ Cardinality({i \in NotFolded(st) : st.players[i].status = "ACTIVE"}) <= 1

\* the board after the next street
NextBoard(cards) == IF cards = 0 THEN 3 ELSE cards + 1

\* a step that makes an action request
Requests == request' # NoRequest /\ request' # request

\* showdown happens with 5 community cards, and a hand that has got there
\* with no one left to bet has had its streets dealt to the river
ShowdownOnFullBoard ==
    /\ [](pc = "showdown" => state.communityCards = 5 /\ state.phase = "RIVER")
    /\ [][(state'.phase = "SHOWDOWN" /\ state.phase # "SHOWDOWN" /\ pc = "showdown")
             => state.communityCards = 5]_vars

\* C26 as stated: from any state of a hand with at least two unfolded players
\* of whom at most one is ACTIVE, no action is requested, and the hand goes
\* on to showdown with 5 community cards.
C26_AsClaimed ==
    /\ [][(pc \in WageringPositions /\ NoOneLeftToBet(state)) => ~Requests]_vars
    /\ (pc \in WageringPositions /\ NoOneLeftToBet(state))
           ~> (pc = "showdown" /\ state.communityCards = 5)
    /\ ShowdownOnFullBoard

\* the positions of runHand between betting rounds
BetweenRounds == {"phase", "afterRound", "runout", "showdown"}

\* C26: with at least two unfolded players of whom at most one is ACTIVE at
\* the start of a street or after a betting round, no action is requested in
\* the rest of the hand, whatever that player owes; each step deals the next
\* street or none, and showdown is reached with exactly 5 community cards.
\* Within a betting round the one ACTIVE player who still has to act is
\* asked.  Showdown never happens with fewer than 5 community cards.
C26_AllInRunOut ==
    /\ [][(pc \in BetweenRounds /\ NoOneLeftToBet(state)) =>
             /\ ~Requests
             /\ pc' \in BetweenRounds \cup {"cleanup"}
             /\ pc' \in BetweenRounds => NoOneLeftToBet(state')
             /\ state'.communityCards
                    \in {state.communityCards, NextBoard(state.communityCards)}]_vars
    /\ (pc \in BetweenRounds /\ NoOneLeftToBet(state))
           ~> (pc = "showdown" /\ state.communityCards = 5)
    /\ (pc \in WageringPositions /\ NoOneLeftToBet(state))
           ~> (pc \in {"showdown", "award"})
    /\ ShowdownOnFullBoard

\* a showdown after a run-out with one player still ACTIVE
C26_Witness ==
    /\ pc = "showdown"
    /\ NoOneLeftToBet(state)
    /\ getActivePlayers(state) # {}
    /\ state.communityCards = 5
    /\ \E i \in Seats(state.players) :
          state.players[i].status = "ALL_IN" /\ state.players[i].currentBet > 0

\* ------------------------------------------------------------- C27: who is asked

\* the seats that are not BUSTED, clockwise (by rising seat number, wrapping
\* round the table) starting at a seat
ClockwiseFrom(st, seat) ==
    LET total == Cardinality(Seats(st.players))
        around == [k \in 1..total |-> (seat + k - 1) % total]
        InGame(s) == st.players[s].status # "BUSTED"
    IN SelectSeq(around, InGame)

\* the seat after a seat, whoever sits there
SeatAfter(st, seat) == (seat + 1) % Cardinality(Seats(st.players))

\* the clockwise order in which a betting round of the street looks for
\* players to ask
ExpectedOrder(st) ==
    LET headsUp == Cardinality(getPlayersInGame(st)) = 2
        nonDealer == CHOOSE i \in getPlayersInGame(st) : i # st.dealerIndex
    IN IF st.phase = "PRE_FLOP"
       THEN IF headsUp THEN ClockwiseFrom(st, st.dealerIndex)
            ELSE ClockwiseFrom(st, SeatAfter(st, st.bigBlindIndex))
       ELSE IF headsUp THEN ClockwiseFrom(st, nonDealer)
            ELSE ClockwiseFrom(st, SeatAfter(st, st.dealerIndex))

\* an ACTIVE player who has not acted or whose street bet is below the bet
StillToAct(st, seat) ==
    /\ st.players[seat].status = "ACTIVE"
    /\ \/ ~st.players[seat].hasActedThisRound
       \/ st.players[seat].currentBet < st.currentBet

\* the first player still to act in an order, looked for from a 0-based
\* position and wrapping round
FirstStillToAct(st, order, from) ==
    LET len == Len(order)
        offset == CHOOSE k \in 0..(len - 1) :
                     /\ StillToAct(st, order[((from + k) % len) + 1])
                     /\ \A j \in 0..(k - 1) : ~StillToAct(st, order[((from + j) % len) + 1])
    IN order[((from + offset) % len) + 1]

\* the 0-based position of a seat in an order
PositionOf(order, seat) == (CHOOSE k \in 1..Len(order) : order[k] = seat) - 1

\* C27: a betting round looks for players clockwise from the seat after the
\* big blind preflop (heads-up: from the dealer, who is the small blind) and
\* from the seat after the dealer postflop (heads-up: from the non-dealer);
\* its first request goes to the first player from there who is ACTIVE and
\* still to act, each following request to the first such player after the
\* one asked before, and the player asked is never FOLDED, ALL_IN or BUSTED.
C27_ActingOrder ==
    /\ [](pc \in {"bet", "await"} => actingOrder = ExpectedOrder(state))
    /\ [](pc = "await" => state.players[request.player].status = "ACTIVE")
    /\ [][pc = "round" => cursor' = 0]_vars
    /\ [][(pc = "await" /\ pc' = "bet") =>
             cursor' = (PositionOf(actingOrder, request.player) + 1) % Len(actingOrder)]_vars
    /\ [][(pc = "bet" /\ Requests) =>
             /\ request'.player = FirstStillToAct(state, ExpectedOrder(state), cursor)
             /\ StillToAct(state, request'.player)]_vars

\* three-handed on the flop the first player after the dealer has folded or
\* is all-in, and the request goes to the next one round the table
C27_Witness ==
    /\ pc = "await"
    /\ state.phase = "FLOP"
    /\ Cardinality(getPlayersInGame(state)) = 3
    /\ state.players[SeatAfter(state, state.dealerIndex)].status \in {"FOLDED", "ALL_IN"}
    /\ request.player = SeatAfter(state, SeatAfter(state, state.dealerIndex))
    /\ \E i \in Seats(state.players) : state.players[i].hasActedThisRound

\* ---------------------------------------------------------------- C28: blinds

\* the positions of a hand from the posting of the blinds to its last award
BlindsSet == WageringPositions

\* the seats that hold the blinds, worked out from the dealer seat
ExpectedBlinds(st) ==
    LET afterDealer == ClockwiseFrom(st, SeatAfter(st, st.dealerIndex))
    IN IF Cardinality(getPlayersInGame(st)) = 2
       THEN [sb |-> st.dealerIndex, bb |-> afterDealer[1]]
       ELSE [sb |-> afterDealer[1], bb |-> afterDealer[2]]

\* what posting a blind does to the player who posts it
Posted(before, after, blind) ==
    LET paid == IF blind < before.chips THEN blind ELSE before.chips
    IN /\ after.chips = before.chips - paid
       /\ after.currentBet = paid
       /\ after.totalBetThisHand = paid
       /\ after.chips = 0 => after.status = "ALL_IN"
       /\ after.chips > 0 => after.status = before.status

NextButton(st, seat) == ClockwiseFrom(st, SeatAfter(st, seat))[1]

\* C29: at the start of every hand the dealer button moves from the seat it
\* was on to the next seat clockwise whose player is not BUSTED, and through
\* the hand the dealer is a player who is not BUSTED.
C29_DealerRotation ==
    /\ [][pc = "initHand" =>
             /\ state.dealerIndex \in Seats(state.players)
             /\ state'.dealerIndex = NextButton(state, state.dealerIndex)
             /\ state'.dealerIndex # state.dealerIndex
             /\ state'.players[state'.dealerIndex].status = "ACTIVE"]_vars
    /\ [](pc \in WageringPositions =>
             state.players[state.dealerIndex].status # "BUSTED")
    /\ [][(pc \in WageringPositions) => state'.dealerIndex = state.dealerIndex]_vars

\* the second hand of three seats, the button having passed or left a BUSTED
\* seat and wrapped round the table
C29_Witness ==
    /\ pc = "postBlinds"
    /\ state.handNumber = 2
    /\ Cardinality(Seats(state.players)) = 3
    /\ state.dealerIndex = 0
    /\ state.players[2].status = "BUSTED"

\* -------------------------------------------------------- C30: busted players

Busted(st) == {i \in Seats(st.players) : st.players[i].status = "BUSTED"}

WithChips(st) == {i \in Seats(st.players) : st.players[i].chips > 0}

\* cleanup marks as BUSTED exactly the players with no chips
CleanupMarksBusted ==
    pc = "cleanup" => /\ state'.phase = "CLEANUP"
                      /\ Busted(state') = Seats(state.players) \ WithChips(state)
                      /\ WithChips(state') = WithChips(state)

\* cleanup ends the game exactly when fewer than two players have chips
CleanupEndsGame ==
    pc = "cleanupCheck" =>
        /\ state'.phase = "GAME_OVER" <=> Cardinality(WithChips(state)) < 2
        /\ running' = (running /\ Cardinality(WithChips(state)) >= 2)
        /\ state'.players = state.players

\* a player who is BUSTED is BUSTED after every step and holds no chips
StaysBusted ==
    \A i \in Busted(state) : i \in Busted(state') /\ state'.players[i].chips = 0

\* through a hand a BUSTED player holds no cards, has put in no chips, holds
\* neither blind and is not the player asked to act
BustedSitsOut ==
    pc \in WageringPositions =>
        /\ \A i \in Busted(state) :
              /\ state.players[i].holeCards = 0
              /\ state.players[i].currentBet = 0
              /\ state.players[i].totalBetThisHand = 0
              /\ i \notin {state.smallBlindIndex, state.bigBlindIndex}
              /\ \A k \in 1..Len(state.pots) : i \notin state.pots[k].eligiblePlayerIds
        /\ request # NoRequest => request.player \notin Busted(state)

\* C30: at CLEANUP exactly the players with zero chips are marked BUSTED, the
\* game becomes GAME_OVER exactly when fewer than two players with chips
\* remain, and a BUSTED player stays BUSTED: in later hands they are dealt no
\* cards, post no blinds and are never asked to act.
C30_BustedPlayers ==
    /\ [][CleanupMarksBusted /\ CleanupEndsGame /\ StaysBusted]_vars
    /\ []BustedSitsOut
    /\ [][(pc \in WageringPositions /\ Requests) => request'.player \notin Busted(state')]_vars

\* the second hand is played to showdown by two players with cards, the
\* third seat BUSTED by the cleanup of the first
C30_Witness ==
    /\ pc = "showdown"
    /\ state.handNumber = 2
    /\ Cardinality(Busted(state)) = 1
    /\ \A i \in Seats(state.players) :
          state.players[i].holeCards = IF i \in Busted(state) THEN 0 ELSE 2
    /\ \E i \in Seats(state.players) : state.players[i].hasActedThisRound

\* ------------------------------------------------- showdown on any wagered hand

\* the players of a hand that has reached showdown: what each has put in and
\* whether they folded, with an evaluated hand for every unfolded player
ShowdownInit ==
    /\ Constructed(<<>>)
    /\ \E n \in 2..MaxPotPlayers :
       \E players \in [0..(n - 1) -> PotPlayer], dealerIndex \in 0..(n - 1) :
       \E playerHands \in [{i \in 0..(n - 1) : players[i].status # "FOLDED"} -> HandSamples] :
          fin = [players |-> players, dealerIndex |-> dealerIndex,
                 playerHands |-> playerHands]
    /\ fout = <<>>
    /\ fpc = "in"

\* showdown: the pots are rebuilt from the players and distributed
SettleShowdown ==
    /\ fpc = "in"
    /\ LET pots == buildSidePots(fin.players) IN
       fout' = [pots |-> pots,
                winners |-> distributePots(pots, fin.playerHands, fin.players,
                                           fin.dealerIndex)]
    /\ fpc' = "done"
    /\ UNCHANGED <<fin, engineVars>>

SpecShowdown == ShowdownInit /\ [][SettleShowdown]_vars

\* ------------------------------------------------ C31: each pot on its own

\* the chips of the first k pots
PotsUpTo(pots, k) == SumSeq([j \in 1..k |-> pots[j].amount])

\* what the players have put in up to a level of total bet
WageredUpTo(players, level) ==
    SumSeq([j \in 1..Cardinality(Seats(players)) |->
               Min(players[j - 1].totalBetThisHand, level)])

\* the level of total bet up to which pot k holds the players' chips
PotLevel(players, pots, k) ==
    SetMin({level \in 0..MaxTotalBet :
               WageredUpTo(players, level) = PotsUpTo(pots, k)})

\* the entries of the winners list that pay out of pot k (0-based potIndex)
PaidFrom(winners, k) == {j \in 1..Len(winners) : winners[j].potIndex = k - 1}

\* C31: at showdown every pot is settled on its own: what is paid out of a
\* pot goes to players of its eligible set whose hand no eligible player's
\* hand beats under compareEvaluatedHands, the payments out of a pot with an
\* eligible player add up to the pot, and a player who folded or who put in
\* less than the pot's level gets nothing from it.
C31_PotsSettledSeparately ==
    fpc = "done" =>
        \A k \in 1..Len(fout.pots) :
            LET pot == fout.pots[k]
                paid == PaidFrom(fout.winners, k)
            IN /\ \A j \in paid :
                    LET w == fout.winners[j].playerId IN
                    /\ w \in pot.eligiblePlayerIds
                    /\ fin.players[w].status # "FOLDED"
                    /\ fin.players[w].totalBetThisHand >= PotLevel(fin.players, fout.pots, k)
                    /\ \A v \in pot.eligiblePlayerIds :
                          compareEvaluatedHands(fin.playerHands[w], fin.playerHands[v]) >= 0
               /\ pot.eligiblePlayerIds # {} =>
                     SumSeq([j \in 1..Len(fout.winners) |->
                                IF j \in paid THEN fout.winners[j].amount ELSE 0]) = pot.amount
               /\ pot.eligiblePlayerIds = {} => paid = {}

\* a short all-in player with the better hand wins the main pot and a player
\* with the worse hand the side pot, a third player having folded chips into
\* the pots
C31_Witness ==
    /\ fpc = "done"
    /\ Len(fout.pots) = 2
    /\ \E a, b, c \in Seats(fin.players) :
          /\ fin.players[c].status = "FOLDED" /\ fin.players[c].totalBetThisHand > 0
          /\ fout.pots[1].eligiblePlayerIds = {a, b}
          /\ fout.pots[2].eligiblePlayerIds = {b}
          /\ compareEvaluatedHands(fin.playerHands[a], fin.playerHands[b]) > 0
          /\ \E i, j \in 1..Len(fout.winners) :
                /\ fout.winners[i] = [playerId |-> a, amount |-> fout.pots[1].amount,
                                      potIndex |-> 0]
                /\ fout.winners[j] = [playerId |-> b, amount |-> fout.pots[2].amount,
                                      potIndex |-> 1]

\* ------------------------------------------------- C32: stacks and street bets

C33_EveryPotHasAnEligibleHand ==
    (pc = "cleanup" /\ Cardinality(getUnfoldedPlayers(state)) >= 2) =>
        \A k \in 1..Len(state.pots) :
            state.pots[k].eligiblePlayerIds \cap ShowdownSeats(state) # {}

\* ------------------------------------------- preflop engine: scenario detection

isRaiseLike(action) == action \in {"RAISE", "BET", "ALL_IN"}

\* the log entries of the current hand's preflop round that are not blinds
getCurrentHandPreflopVoluntaryActions(gameState) ==
    LET Voluntary(e) == /\ e.phase = "PRE_FLOP"
                        /\ e.handNumber = gameState.handNumber
                        /\ e.action # "POST_SB"
                        /\ e.action # "POST_BB"
    IN SelectSeq(gameState.actionLog, Voluntary)

detectPreflopScenario(playerId, gameState) ==
    LET voluntaryActions == getCurrentHandPreflopVoluntaryActions(gameState)
        RaiseLike(e) == isRaiseLike(e.action)
        raises == SelectSeq(voluntaryActions, RaiseLike)
        Mine(e) == e.playerId = playerId
        Others(e) == e.playerId # playerId
        myRaises == SelectSeq(raises, Mine)
        otherRaises == SelectSeq(raises, Others)
        hasLimpers == \E k \in 1..Len(voluntaryActions) :
                         voluntaryActions[k].action = "CALL" /\ Len(raises) = 0
    IN IF Len(otherRaises) = 0 /\ ~hasLimpers THEN "RFI"
       ELSE IF hasLimpers /\ Len(otherRaises) = 0 THEN "LIMPED_POT"
       ELSE IF Len(myRaises) > 0 /\ Len(otherRaises) > Len(myRaises)
            THEN IF Len(raises) >= 4 THEN "FACING_4BET" ELSE "FACING_3BET"
       ELSE IF Len(otherRaises) >= 3 THEN "FACING_4BET"
       ELSE IF Len(otherRaises) >= 2 THEN "FACING_3BET"
       ELSE "FACING_RAISE"

\* entries of the action log that are kept
MaxLogLen == 3
\* the player who decides is seat 0; the hand being played is hand 2
LogPlayers == 0..2
LogActions == {"POST_BB", "FOLD", "CHECK", "CALL", "RAISE", "ALL_IN"}
LogPlaces == {[phase |-> "PRE_FLOP", handNumber |-> 2],
              [phase |-> "HAND_INIT", handNumber |-> 2],
              [phase |-> "PRE_FLOP", handNumber |-> 1]}

LogEntries ==
    {[playerId |-> p, action |-> a, phase |-> w.phase, handNumber |-> w.handNumber] :
        p \in LogPlayers, a \in LogActions, w \in LogPlaces}

\* what play allows of a log when the player is asked to act: the player has
\* neither folded nor gone all-in, the last raise is not the player's own,
\* and no player raises twice with no raise between
AskedAfter(log, playerId) ==
    LET RaiseLike(e) == isRaiseLike(e.action)
        voluntary == getCurrentHandPreflopVoluntaryActions(
                         [actionLog |-> log, handNumber |-> 2])
        raises == SelectSeq(voluntary, RaiseLike)
    IN /\ \A k \in 1..Len(voluntary) :
             voluntary[k].playerId = playerId => voluntary[k].action \notin {"FOLD", "ALL_IN"}
       /\ \A k \in 1..(Len(raises) - 1) : raises[k].playerId # raises[k + 1].playerId
       /\ raises # <<>> => raises[Len(raises)].playerId # playerId

ScenarioInit ==
    /\ Constructed(<<>>)
    /\ \E log \in SeqsUpTo(LogEntries, MaxLogLen) :
          /\ AskedAfter(log, 0)
          /\ fin = [playerId |-> 0, gameState |-> [actionLog |-> log, handNumber |-> 2]]
    /\ fout = <<>>
    /\ fpc = "in"

DetectScenario ==
    /\ fpc = "in"
    /\ fout' = detectPreflopScenario(fin.playerId, fin.gameState)
    /\ fpc' = "done"
    /\ UNCHANGED <<fin, engineVars>>

SpecScenario == ScenarioInit /\ [][DetectScenario]_vars

\* ---------------------------------------------------- C35: the preflop scenario

\* the raises and the calls made so far in the current hand's preflop round
RaisesSoFar ==
    LET RaiseLike(e) == isRaiseLike(e.action)
    IN Len(SelectSeq(getCurrentHandPreflopVoluntaryActions(fin.gameState), RaiseLike))

CallsSoFar ==
    LET Call(e) == e.action = "CALL"
    IN Len(SelectSeq(getCurrentHandPreflopVoluntaryActions(fin.gameState), Call))

\* C35: the spot of the player asked to act follows from the raises made so
\* far in the current hand's preflop round: none and no call is RFI, none
\* but calls is LIMPED_POT, one is FACING_RAISE, two are FACING_3BET and
\* three are FACING_4BET, whoever made them.
C35_ScenarioByRaises ==
    fpc = "done" =>
        /\ (RaisesSoFar = 0 /\ CallsSoFar = 0) => fout = "RFI"
        /\ (RaisesSoFar = 0 /\ CallsSoFar > 0) => fout = "LIMPED_POT"
        /\ RaisesSoFar = 1 => fout = "FACING_RAISE"
        /\ RaisesSoFar = 2 => fout = "FACING_3BET"
        /\ RaisesSoFar = 3 => fout = "FACING_4BET"

\* ------------------------------------------------ bot engine: the decision core

\* Math.random() is modelled as random / RandomSteps, random in 0..RandomSteps-1
RandomSteps == 4

\* x || y on numbers
OrElse(x, y) == IF x = 0 THEN y ELSE x

\* selectActionByFrequency, with the value Math.random() returns
selectActionByFrequency(rangeAction, legalActions, random) ==
    LET canCheck == "CHECK" \in Types(legalActions)
        canCall == "CALL" \in Types(legalActions)
        canRaise == "RAISE" \in Types(legalActions)
        canBet == "BET" \in Types(legalActions)
        canFold == "FOLD" \in Types(legalActions)
        canAllIn == "ALL_IN" \in Types(legalActions)
        effectiveFold == IF canCheck THEN 0 ELSE rangeAction.fold
        effectiveRaise == IF canRaise \/ canBet THEN rangeAction.raise ELSE 0
        effectiveCall == IF canCall THEN rangeAction.call
                         ELSE IF canCheck THEN rangeAction.call ELSE 0
        effectiveAllIn == IF canAllIn THEN rangeAction.allIn ELSE 0
        total == effectiveFold + effectiveCall + effectiveRaise + effectiveAllIn
        \* roll < cumulative, for roll = (random / RandomSteps) * total
        RollBelow(cumulative) == random * total < cumulative * RandomSteps
        afterRaise == effectiveRaise
        afterAllIn == afterRaise + effectiveAllIn
        afterCall == afterAllIn + effectiveCall
        atEnd == IF canFold THEN "FOLD" ELSE IF canCheck THEN "CHECK" ELSE "FOLD"
        fromCall == IF RollBelow(afterCall) /\ canCall THEN "CALL"
                    ELSE IF RollBelow(afterCall) /\ canCheck THEN "CHECK"
                    ELSE atEnd
        fromAllIn == IF RollBelow(afterAllIn)
                     THEN IF canAllIn THEN "ALL_IN" ELSE "RAISE"
                     ELSE fromCall
    IN IF total = 0 THEN IF canCheck THEN "CHECK" ELSE "FOLD"
       ELSE IF RollBelow(afterRaise) /\ canRaise THEN "RAISE"
       ELSE IF RollBelow(afterRaise) /\ canBet THEN "BET"
       ELSE IF RollBelow(afterRaise) /\ canAllIn THEN "ALL_IN"
       ELSE fromAllIn

\* bet-sizing: Math.round(bb * 2.5), Math.round(x * 3), Math.round(x * 2.25)
calculatePreflopRaiseSize(isFromSB, numLimpers) ==
    IF numLimpers > 0 THEN BIG_BLIND * (3 + numLimpers)
    ELSE IF isFromSB THEN BIG_BLIND * 3
    ELSE (5 * BIG_BLIND + 1) \div 2

calculate3BetSize(openRaiseAmount) == Max(3 * openRaiseAmount, BIG_BLIND * 3)

calculate4BetSize(threeBetAmount) == Max((9 * threeBetAmount + 2) \div 4, BIG_BLIND * 4)

\* the sized amount handed back as it is
resolveAmountUnclamped(actionType, player, gameState, legalActions, isFromSB, limpers, scenario) ==
    IF actionType \in {"BET", "RAISE"}
    THEN IF scenario \in {"RFI", "LIMPED_POT"}
         THEN calculatePreflopRaiseSize(isFromSB, limpers)
         ELSE IF scenario = "FACING_RAISE" THEN calculate3BetSize(gameState.currentBet)
         ELSE calculate4BetSize(gameState.currentBet)
    ELSE 0

\* resolveAmount; position === Position.SB and the count of CALL entries in
\* the preflop log are its inputs isFromSB and limpers
resolveAmount(actionType, player, gameState, legalActions, isFromSB, limpers, scenario) ==
    LET found == actionType \in Types(legalActions)
        legal == IF found THEN FindLegal(legalActions, actionType) ELSE [type |-> actionType]
    IN CASE actionType \in {"FOLD", "CHECK"} -> 0
         [] actionType = "CALL" -> OrZero(legal, "callAmount")
         [] actionType = "ALL_IN" -> OrElse(OrZero(legal, "maxAmount"), player.chips)
         [] actionType \in {"BET", "RAISE"} ->
                IF ~found THEN 0
                ELSE IF scenario = "FACING_4BET"
                THEN OrElse(OrZero(legal, "maxAmount"), player.chips)
                ELSE LET targetSize ==
                             CASE scenario \in {"RFI", "LIMPED_POT"} ->
                                      calculatePreflopRaiseSize(isFromSB, limpers)
                               [] scenario = "FACING_RAISE" ->
                                      calculate3BetSize(gameState.currentBet)
                               [] scenario = "FACING_3BET" ->
                                      calculate4BetSize(gameState.currentBet)
                               [] OTHER -> calculatePreflopRaiseSize(FALSE, 0)
                         min == OrZero(legal, "minAmount")
                         max == OrElse(OrZero(legal, "maxAmount"), min)
                     IN Min(Max(targetSize, min), max)
         [] OTHER -> 0

\* getPreflopAction from the range looked up for the hand
getPreflopAction(player, gameState, legalActions, rangeAction, random, isFromSB, limpers, scenario) ==
    LET selectedAction == selectActionByFrequency(rangeAction, legalActions, random)
    IN [type |-> selectedAction,
        amount |-> resolveAmount(selectedAction, player, gameState, legalActions,
                                 isFromSB, limpers, scenario)]

\* mapSolverAction
mapSolverAction(solverAction, player, legalActions) ==
    LET Can(t) == t \in Types(legalActions)
        Legal(t) == FindLegal(legalActions, t)
        check == [type |-> "CHECK", amount |-> 0]
        fold == [type |-> "FOLD", amount |-> 0]
        call == [type |-> "CALL", amount |-> OrZero(Legal("CALL"), "callAmount")]
        Clamped(t) == LET min == OrZero(Legal(t), "minAmount")
                          max == OrElse(OrZero(Legal(t), "maxAmount"), min)
                      IN [type |-> t, amount |-> Min(Max(solverAction.amount, min), max)]
    IN CASE solverAction.type = "Fold" -> IF Can("CHECK") THEN check ELSE fold
         [] solverAction.type = "Check" ->
                IF Can("CHECK") THEN check ELSE IF Can("CALL") THEN call ELSE fold
         [] solverAction.type = "Call" ->
                IF Can("CALL") THEN call ELSE IF Can("CHECK") THEN check ELSE fold
         [] solverAction.type = "Bet" ->
                IF Can("BET") THEN Clamped("BET")
                ELSE IF Can("RAISE") THEN Clamped("RAISE")
                ELSE IF Can("CHECK") THEN check
                ELSE IF Can("CALL") THEN call ELSE fold
         [] solverAction.type = "Raise" ->
                IF Can("RAISE") THEN Clamped("RAISE")
                ELSE IF Can("CALL") THEN call
                ELSE IF Can("CHECK") THEN check ELSE fold
         [] solverAction.type = "Allin" ->
                IF Can("ALL_IN")
                THEN [type |-> "ALL_IN",
                      amount |-> OrElse(OrZero(Legal("ALL_IN"), "maxAmount"), player.chips)]
                ELSE IF Can("RAISE")
                THEN [type |-> "RAISE", amount |-> OrZero(Legal("RAISE"), "maxAmount")]
                ELSE IF Can("CALL") THEN call
                ELSE IF Can("CHECK") THEN check ELSE fold

\* getPostflopAction from what trySolverAction has come to: null, or the
\* solver action sampled for the hand
getPostflopAction(player, legalActions, sampled) ==
    IF sampled = NoResult
    THEN IF "CHECK" \in Types(legalActions) THEN [type |-> "CHECK", amount |-> 0]
         ELSE [type |-> "FOLD", amount |-> 0]
    ELSE mapSolverAction(sampled, player, legalActions)

\* the stacks, bets and raise increments of the players a bot decides for
BotChips == {1, 3, 8, 12, 20, 40}
BotBets == {0, 2, 4, 8, 12}
BotIncrements == {4, 8}
\* the weights of a range entry; a chart entry may be below 0 by the tolerance
BotFrequencies == (-1)..2
PreflopScenarios == {"RFI", "LIMPED_POT", "FACING_RAISE", "FACING_3BET", "FACING_4BET"}
SolverActionTypes == {"Fold", "Check", "Call", "Bet", "Raise", "Allin"}
SolverAmounts == {0, 3, 6, 10, 50}
\* most limpers counted in the log
MaxLimpers == 2

\* getBotAction is called with the legal actions of a request
BotInit ==
    /\ Constructed(<<>>)
    /\ \E chips \in BotChips, tableBet \in BotBets, incr \in BotIncrements,
          phase \in {"PRE_FLOP", "FLOP"} :
       \E streetBet \in {b \in BotBets : b <= tableBet} :
          LET player == [status |-> "ACTIVE", chips |-> chips, currentBet |-> streetBet]
              gameState == [currentBet |-> tableBet, lastRaiseIncrement |-> incr,
                            phase |-> phase]
          IN fin = [player |-> player, gameState |-> gameState,
                    legalActions |-> calculateLegalActions(player, gameState)]
    /\ fout = <<>>
    /\ fpc = "in"

\* getBotAction before the flop
PreflopDecision ==
    /\ fpc = "in"
    /\ fin.gameState.phase = "PRE_FLOP"
    /\ \E rangeAction \in [fold : BotFrequencies, call : BotFrequencies,
                           raise : BotFrequencies, allIn : BotFrequencies],
          random \in 0..(RandomSteps - 1), isFromSB \in BOOLEAN,
          limpers \in 0..MaxLimpers, scenario \in PreflopScenarios :
          fout' = getPreflopAction(fin.player, fin.gameState, fin.legalActions,
                                   rangeAction, random, isFromSB, limpers, scenario)
    /\ fpc' = "done"
    /\ UNCHANGED <<fin, engineVars>>

\* getBotAction after the flop
PostflopDecision ==
    /\ fpc = "in"
    /\ fin.gameState.phase # "PRE_FLOP"
    /\ \E sampled \in {NoResult} \cup [type : SolverActionTypes, amount : SolverAmounts] :
          fout' = getPostflopAction(fin.player, fin.legalActions, sampled)
    /\ fpc' = "done"
    /\ UNCHANGED <<fin, engineVars>>

getBotAction == PreflopDecision \/ PostflopDecision

SpecBot == BotInit /\ [][getBotAction]_vars

\* ------------------------------------------------- C34: bots answer legally

\* C34: the action a bot returns has a type that is among the legal actions
\* it was given, is not FOLD when CHECK is among them, and for BET and RAISE
\* has an amount within the legal action's minAmount and maxAmount, so that
\* validateAction finds the type and its clamp leaves the amount as it is.
C34_BotActionsAreLegal ==
    fpc = "done" =>
        /\ fout.type \in Types(fin.legalActions)
        /\ "CHECK" \in Types(fin.legalActions) => fout.type # "FOLD"
        /\ fout.type \in {"BET", "RAISE"} =>
              LET legal == FindLegal(fin.legalActions, fout.type) IN
              /\ legal.minAmount <= fout.amount
              /\ fout.amount <= legal.maxAmount
              /\ Clamp(fout.amount, legal.minAmount, legal.maxAmount) = fout.amount
        /\ validateAction(fout, fin.legalActions, fin.player, fin.gameState).type
               \in {fout.type, "ALL_IN"}

\* a raise sized between the legal minimum and maximum
C34_Witness ==
    /\ fpc = "done"
    /\ fout.type = "RAISE"
    /\ LET legal == FindLegal(fin.legalActions, "RAISE") IN
       legal.minAmount < fout.amount /\ fout.amount < legal.maxAmount
    /\ "FOLD" \in Types(fin.legalActions)

\* ------------------------------------------ the solver worker: action history

\* The solver's tree as the worker sees it through apply_history,
\* current_player and actions_after: a node has a player ("oop", "ip",
\* "terminal" or "chance") and the actions it offers, each a raw type and an
\* amount; the child reached by action index i of the root is children[i + 1].
MaxSteps == 2

SolverNodeTypes == {"Fold", "Check", "Call", "Bet", "Raise", "Allin"}

OopMenu == << [rawType |-> "Check", amount |-> 0], [rawType |-> "Bet", amount |-> 3],
              [rawType |-> "Bet", amount |-> 9], [rawType |-> "AllIn", amount |-> 20] >>

IpMenu == << [rawType |-> "Fold", amount |-> 0], [rawType |-> "Call", amount |-> 0],
             [rawType |-> "Raise", amount |-> 9], [rawType |-> "Raise", amount |-> 3] >>

ShortMenu == << [rawType |-> "Fold", amount |-> 0], [rawType |-> "Call", amount |-> 0] >>

NodeMenus == {OopMenu, IpMenu, ShortMenu}

ClosedNodes == {[player |-> "terminal", actions |-> <<>>],
                [player |-> "chance", actions |-> <<>>]}

DecisionNodes(player) == {[player |-> player, actions |-> menu] : menu \in NodeMenus}

DeepNode == [player |-> "oop", actions |-> ShortMenu]

SolverTrees ==
    UNION {[root : {root}, children : [1..Len(root.actions) -> ClosedNodes \cup DecisionNodes("ip")]]
               : root \in DecisionNodes("oop")}

\* apply_history(history) followed by current_player() and actions_after([])
NodeAt(tree, history) ==
    IF history = <<>> THEN tree.root
    ELSE IF Len(history) = 1 THEN tree.children[history[1] + 1]
    ELSE DeepNode

selectActionIndexFirst(requested, available) ==
    LET candidates == {i \in 1..Len(available) : available[i].type = requested.type}
    IN IF candidates = {} THEN NoResult
       ELSE [index |-> SetMin(candidates) - 1, amountDelta |-> 0]

normalizeActionType(type) ==
    IF type = "AllIn" THEN "Allin"
    ELSE IF type \in SolverNodeTypes THEN type
    ELSE "null"

\* the parts of an actions string with a known type, in order
parseActionString(actions) ==
    LET known == SelectSeq(actions, LAMBDA part : normalizeActionType(part.rawType) # "null")
    IN [i \in 1..Len(known) |->
            [type |-> normalizeActionType(known[i].rawType), amount |-> known[i].amount]]

\* index (from 0) of the available action a realized step resolves to
selectActionIndex(requested, available) ==
    LET requestedType == normalizeActionType(requested.type)
        candidates == {i \in 1..Len(available) : available[i].type = requestedType}
        delta(i) == Abs(available[i].amount - requested.amount)
        bestDelta == SetMin({delta(i) : i \in candidates})
        best == SetMin({i \in candidates : delta(i) = bestDelta})
    IN IF requestedType = "null" \/ candidates = {} THEN NoResult
       ELSE IF requestedType \in {"Fold", "Check", "Call"}
            THEN [index |-> SetMin(candidates) - 1, amountDelta |-> 0]
            ELSE [index |-> best - 1, amountDelta |-> bestDelta]

NoError == "null"

RECURSIVE ResolveFrom(_, _, _, _, _)
ResolveFrom(tree, steps, i, history, mappedSteps) ==
    LET node == NodeAt(tree, history) IN
    IF i > Len(steps)
    THEN [history |-> history, mappedSteps |-> mappedSteps,
          currentPlayer |-> node.player, error |-> NoError]
    ELSE IF node.player \in {"terminal", "chance"}
    THEN [history |-> history, mappedSteps |-> mappedSteps,
          currentPlayer |-> node.player, error |-> "Reached terminal or chance"]
    ELSE LET available == parseActionString(node.actions)
             selected == selectActionIndex(steps[i], available)
         IN IF selected = NoResult
            THEN [history |-> history, mappedSteps |-> mappedSteps,
                  currentPlayer |-> node.player, error |-> "No matching action"]
            ELSE ResolveFrom(tree, steps, i + 1, Append(history, selected.index),
                             Append(mappedSteps,
                                    [requested |-> steps[i],
                                     resolved |-> available[selected.index + 1],
                                     actionIndex |-> selected.index,
                                     amountDelta |-> selected.amountDelta]))

resolveHistory(tree, steps) == ResolveFrom(tree, steps, 1, <<>>, <<>>)

\* the worker's getStrategy: nothing at a terminal or chance node
getStrategy(tree, history) ==
    LET node == NodeAt(tree, history) IN
    IF node.player \in {"terminal", "chance"} THEN NoResult
    ELSE [actions |-> node.actions, currentPlayer |-> node.player]

\* the bridge's solve, from resolving the history on
solve(tree, historyActions) ==
    LET historyResolution == resolveHistory(tree, historyActions)
        strategyResult == getStrategy(tree, historyResolution.history)
    IN IF historyResolution.error # NoError THEN NoResult
       ELSE IF strategyResult = NoResult THEN NoResult
       ELSE [actions |-> strategyResult.actions,
             currentPlayer |-> strategyResult.currentPlayer,
             history |-> historyResolution.history,
             historyMapping |-> historyResolution.mappedSteps]

HistorySteps ==
    [type : {"Fold", "Check", "Call"}, amount : {0}]
        \cup [type : {"Bet", "Raise", "Allin"}, amount : {2, 6}]

HistoryInit ==
    /\ Constructed(<<>>)
    /\ \E tree \in SolverTrees, steps \in SeqsUpTo(HistorySteps, MaxSteps) :
          fin = [tree |-> tree, historyActions |-> steps]
    /\ fout = <<>>
    /\ fpc = "in"

SolveHistory ==
    /\ fpc = "in"
    /\ fout' = [resolution |-> resolveHistory(fin.tree, fin.historyActions),
                result |-> solve(fin.tree, fin.historyActions)]
    /\ fpc' = "done"
    /\ UNCHANGED <<fin, engineVars>>

SpecHistory == HistoryInit /\ [][SolveHistory]_vars

\* ------------------------------------------------ C36: resolving the history

\* the available action that history index k (from 0) names at a node
Offered(node, k) == parseActionString(node.actions)[k + 1]

OffersType(node, type) ==
    \E k \in 1..Len(node.actions) : parseActionString(node.actions)[k].type = type

\* step i of the realized actions resolved to an action of its own type: the
\* first such action for Fold, Check and Call, a nearest one by amount for
\* Bet, Raise and Allin
ResolvedRight(tree, steps, history, i) ==
    LET node == NodeAt(tree, SubSeq(history, 1, i - 1))
        available == parseActionString(node.actions)
        k == history[i] + 1
    IN /\ node.player \notin {"terminal", "chance"}
       /\ k \in 1..Len(available)
       /\ available[k].type = steps[i].type
       /\ steps[i].type \in {"Fold", "Check", "Call"} =>
              \A j \in 1..(k - 1) : available[j].type # steps[i].type
       /\ steps[i].type \in {"Bet", "Raise", "Allin"} =>
              \A j \in 1..Len(available) :
                  available[j].type = steps[i].type =>
                      Abs(available[k].amount - steps[i].amount)
                          <= Abs(available[j].amount - steps[i].amount)

\* C36: resolveHistory maps the realized actions, in order, to action
\* indices, each step to an available action of its type (the first for Fold,
\* Check and Call, the nearest amount for Bet, Raise and Allin); when a node
\* on the way is terminal or chance or offers no action of the step's type it
\* reports an error, solve returns null, and a result of solve always carries
\* a full history.
C36_HistoryResolution ==
    fpc = "done" =>
        LET steps == fin.historyActions
            r == fout.resolution
            stopped == NodeAt(fin.tree, r.history)
        IN /\ \A i \in 1..Len(r.history) : ResolvedRight(fin.tree, steps, r.history, i)
           /\ Len(r.history) <= Len(steps)
           /\ r.error = NoError <=> Len(r.history) = Len(steps)
           /\ r.error # NoError =>
                 /\ \/ stopped.player \in {"terminal", "chance"}
                    \/ ~OffersType(stopped, steps[Len(r.history) + 1].type)
                 /\ fout.result = NoResult
           /\ fout.result # NoResult =>
                 /\ fout.result.history = r.history
                 /\ Len(fout.result.history) = Len(steps)

\* two steps resolved, the second to the nearer of two raises, which is not
\* the first one offered
C36_Witness ==
    /\ fpc = "done"
    /\ fout.result # NoResult
    /\ Len(fout.result.history) = 2
    /\ fin.historyActions[2].type = "Raise"
    /\ fout.result.history[2] = 3

\* ------------------------------------------- the solver worker: the manager

\* The worker's module state: manager is the handle it holds (0 for null),
\* GameManagerClass and wasmReady are its loading flags, and fate records,
\* for every handle GameManagerClass.new() has returned, whether it is still
\* "held", was released with free() ("freed"), or was let go of without
\* free() ("dropped"). returned is the value of the last call.
MaxManagers == 4

NoManager == 0

WorkerLoaded ==
    [manager |-> NoManager, GameManagerClass |-> FALSE, wasmReady |-> FALSE,
     fate |-> <<>>, returned |-> "none"]

\* manager.free(); manager = null
Release(w) ==
    IF w.manager = NoManager THEN w
    ELSE [w EXCEPT !.fate[w.manager] = "freed", !.manager = NoManager]

initWithoutRelease(w, inputs, error, allocates) ==
    LET h == Len(w.fate) + 1 IN
    IF inputs # "ok" \/ ~w.GameManagerClass THEN [w EXCEPT !.returned = "error"]
    ELSE IF error \/ ~allocates
    THEN [w EXCEPT !.fate = Append(w.fate, "dropped"), !.manager = NoManager,
                   !.returned = "error"]
    ELSE [w EXCEPT !.fate = Append(w.fate, "held"), !.manager = h, !.returned = "null"]

loadWasm(w) ==
    IF w.wasmReady THEN [w EXCEPT !.returned = "void"]
    ELSE [w EXCEPT !.GameManagerClass = TRUE, !.wasmReady = TRUE, !.returned = "void"]

\* api.init: inputs is "ok" or the validation that fails, error says whether
\* the manager's init reports an error, allocates whether allocate_memory
\* returns without throwing
init(w, inputs, error, allocates) ==
    IF inputs # "ok" THEN [w EXCEPT !.returned = inputs]
    ELSE LET released == Release(w)
             h == Len(w.fate) + 1
             created == [released EXCEPT !.fate = Append(released.fate, "held"),
                                         !.manager = h]
         IN IF ~w.GameManagerClass
            THEN [released EXCEPT !.returned = "GameManager class is not loaded"]
            ELSE IF error
            THEN [created EXCEPT !.fate[h] = "dropped", !.manager = NoManager,
                                 !.returned = "init error"]
            ELSE IF ~allocates
            THEN [created EXCEPT !.fate[h] = "dropped", !.manager = NoManager,
                                 !.returned = "Memory allocation failed"]
            ELSE [created EXCEPT !.returned = "null"]

\* api.terminate
terminate(w) == [Release(w) EXCEPT !.wasmReady = FALSE, !.returned = "void"]

InitInputs == {"ok", "Invalid board length", "Invalid pot/stack", "Empty range detected"}

WorkerInit ==
    /\ Constructed(<<>>)
    /\ fin = <<>>
    /\ fout = WorkerLoaded
    /\ fpc = "worker"

WorkerLoadWasm ==
    /\ fpc = "worker"
    /\ fout' = loadWasm(fout)
    /\ UNCHANGED <<fin, fpc, engineVars>>

WorkerInitCall ==
    /\ fpc = "worker"
    /\ Len(fout.fate) < MaxManagers
    /\ \E inputs \in InitInputs, error \in BOOLEAN, allocates \in BOOLEAN :
          fout' = init(fout, inputs, error, allocates)
    /\ UNCHANGED <<fin, fpc, engineVars>>

WorkerTerminate ==
    /\ fpc = "worker"
    /\ fout' = terminate(fout)
    /\ UNCHANGED <<fin, fpc, engineVars>>

WorkerNext == WorkerLoadWasm \/ WorkerInitCall \/ WorkerTerminate

SpecWorker == WorkerInit /\ [][WorkerNext]_vars

\* --------------------------------------------- C38: managers are released

Handles(w) == 1..Len(w.fate)

HeldHandles(w) == {h \in Handles(w) : w.fate[h] = "held"}

\* C38 as stated: every manager the worker no longer holds was released with
\* free(), and at most one manager is held at any time.
C38_EveryManagerFreed ==
    fpc = "worker" =>
        /\ \A h \in Handles(fout) : fout.fate[h] \in {"held", "freed"}
        /\ Cardinality(HeldHandles(fout)) <= 1

\* C38, amended: the manager the worker holds is the only one held; a held
\* manager leaves the worker's hands only through free(), when a later init
\* replaces it or on terminate; a manager whose init reports an error or
\* whose memory allocation fails is dropped without free() in the call that
\* created it, which returns the error.
C38_ManagersReleasedOrDropped ==
    [][(fpc = "worker" /\ fpc' = "worker") =>
          /\ HeldHandles(fout') = {fout'.manager} \ {NoManager}
          /\ Cardinality(HeldHandles(fout')) <= 1
          /\ \A h \in Handles(fout) :
                /\ fout.fate[h] = "held" => fout'.fate[h] \in {"held", "freed"}
                /\ fout.fate[h] # "held" => fout'.fate[h] = fout.fate[h]
          /\ \A h \in Handles(fout') \ Handles(fout) :
                /\ fout'.fate[h] \in {"held", "dropped"}
                /\ fout'.fate[h] = "dropped" <=>
                       fout'.returned \in {"init error", "Memory allocation failed"}
                /\ HeldHandles(fout) = {} \/ fout'.fate[fout.manager] = "freed"
    ]_vars

\* a manager freed by a later init, one dropped after a failure, one held
C38_Witness ==
    /\ fpc = "worker"
    /\ \E a, b, c \in Handles(fout) :
          /\ fout.fate[a] = "freed"
          /\ fout.fate[b] = "dropped"
          /\ fout.fate[c] = "held"
          /\ a < b /\ b < c

\* --------------------------------------------- useGameEngine: human actions

\* The hook's state next to the engine that awaits its callback:
\* humanResolverRef is the request whose promise the stored resolver settles
\* (0 for null), promises holds every human request's promise (Unsettled or
\* the action it was resolved with), awaiting is the request the engine's
\* betting round is suspended on (0 when it is not), answers are the actions
\* the engine has taken back from onActionRequest, humanActionRequired is the
\* flag dispatched to the table, and submissions counts the calls of
\* submitHumanAction.
MaxRequests == 3

MaxSubmissions == 4

NoResolver == 0

Unsettled == [pending |-> TRUE]

HumanActions == [type : {"FOLD", "CALL", "RAISE"}, amount : {0, 8}, playerId : {"human"}]

HookMounted ==
    [humanResolverRef |-> NoResolver, promises |-> <<>>, awaiting |-> 0,
     answers |-> <<>>, humanActionRequired |-> FALSE, submissions |-> 0]

submitHumanActionUnguarded(w, type, amount) ==
    LET target == IF w.humanResolverRef # NoResolver THEN w.humanResolverRef
                  ELSE Len(w.promises)
    IN [w EXCEPT !.humanResolverRef = NoResolver,
                 !.humanActionRequired = FALSE,
                 !.promises = IF target = 0 THEN @
                              ELSE [@ EXCEPT ![target] =
                                       [type |-> type, amount |-> amount,
                                        playerId |-> "human"]],
                 !.submissions = @ + 1]

\* onActionRequest for the human player: show the legal actions and return a
\* promise whose resolver is stored
onActionRequest(w) ==
    [w EXCEPT !.promises = Append(@, Unsettled),
              !.humanResolverRef = Len(w.promises) + 1,
              !.awaiting = Len(w.promises) + 1,
              !.humanActionRequired = TRUE]

\* resolver(action): a promise is settled by the first call only
Resolve(promises, r, action) ==
    IF promises[r] = Unsettled THEN [promises EXCEPT ![r] = action] ELSE promises

submitHumanAction(w, type, amount) ==
    IF w.humanResolverRef # NoResolver
    THEN [w EXCEPT !.humanResolverRef = NoResolver,
                   !.humanActionRequired = FALSE,
                   !.promises = Resolve(@, w.humanResolverRef,
                                        [type |-> type, amount |-> amount,
                                         playerId |-> "human"]),
                   !.submissions = @ + 1]
    ELSE [w EXCEPT !.submissions = @ + 1]

HookInit ==
    /\ Constructed(<<>>)
    /\ fin = <<>>
    /\ fout = HookMounted
    /\ fpc = "hook"

\* the betting round asks the human player
HumanRequest ==
    /\ fpc = "hook"
    /\ fout.awaiting = 0
    /\ Len(fout.promises) < MaxRequests
    /\ fout' = onActionRequest(fout)
    /\ UNCHANGED <<fin, fpc, engineVars>>

\* the table's buttons
SubmitHumanAction ==
    /\ fpc = "hook"
    /\ fout.submissions < MaxSubmissions
    /\ \E a \in HumanActions : fout' = submitHumanAction(fout, a.type, a.amount)
    /\ UNCHANGED <<fin, fpc, engineVars>>

\* the awaited promise is settled and the betting round goes on
HumanAnswered ==
    /\ fpc = "hook"
    /\ fout.awaiting # 0
    /\ fout.promises[fout.awaiting] # Unsettled
    /\ fout' = [fout EXCEPT !.answers = Append(@, fout.promises[fout.awaiting]),
                            !.awaiting = 0]
    /\ UNCHANGED <<fin, fpc, engineVars>>

HookNext == HumanRequest \/ SubmitHumanAction \/ HumanAnswered

SpecHook == HookInit /\ [][HookNext]_vars

\* ------------------------------------------------ C39: human submissions

Submitting == fout'.submissions = fout.submissions + 1

\* what a submission can change for the game
GameSide(w) == <<w.humanResolverRef, w.promises, w.awaiting, w.answers,
                 w.humanActionRequired>>

\* C39: a submission while no human request is pending changes nothing but
\* the count of submissions; a pending request is answered by the first
\* submission after it and by no later one: a settled promise keeps its
\* action, the engine takes one answer per request, and that answer is the
\* action the promise was settled with.
C39_OneAnswerPerRequest ==
    [][(fpc = "hook" /\ fpc' = "hook") =>
          /\ (Submitting /\ fout.humanResolverRef = NoResolver) =>
                 GameSide(fout') = GameSide(fout)
          /\ \A r \in 1..Len(fout.promises) :
                 fout.promises[r] # Unsettled => fout'.promises[r] = fout.promises[r]
          /\ Len(fout'.answers) <= Len(fout'.promises)
          /\ \A k \in 1..Len(fout'.answers) : fout'.answers[k] = fout'.promises[k]
          /\ fout'.humanResolverRef # NoResolver =>
                 /\ fout'.promises[fout'.humanResolverRef] = Unsettled
                 /\ fout'.awaiting = fout'.humanResolverRef
    ]_vars

\* a second submission made after a request was answered and before the next
\* request: two answers taken, more submissions than requests
C39_Witness ==
    /\ fpc = "hook"
    /\ Len(fout.answers) = 2
    /\ fout.submissions > Len(fout.promises)
    /\ fout.humanResolverRef = NoResolver

\* ------------------------------------------------- hand analysis: the draws

\* Cards are records of a rank (2..14) and a suit; hole cards and community
\* cards are sets of cards, their order playing no part.
MaxBoard == 3

DrawRanks == {2, 3, 4, 5, 6, 10, 11, 12, 13, 14}

DrawSuits == {"s", "h"}

DrawDeck == [rank : DrawRanks, suit : DrawSuits]

RanksOf(cards) == {c.rank : c \in cards}

\* the distinct ranks, with the low ace added for the wheel
AllRanks(holeCards, communityCards) ==
    LET ranks == RanksOf(holeCards \cup communityCards)
    IN IF 14 \in ranks THEN ranks \cup {1} ELSE ranks

\* the ranks of the window that come from a hole card
HoleInWindow(holeCards, communityCards, high) ==
    {r \in AllRanks(holeCards, communityCards) :
        /\ r >= high - 4 /\ r <= high
        /\ r \in RanksOf(holeCards) \/ (r = 1 /\ 14 \in RanksOf(holeCards))}

InWindow(holeCards, communityCards, high) ==
    {r \in AllRanks(holeCards, communityCards) : r >= high - 4 /\ r <= high}

\* windows with a hole card and exactly one rank missing
OneGapWindows(holeCards, communityCards) ==
    {high \in 5..14 :
        /\ HoleInWindow(holeCards, communityCards, high) # {}
        /\ 5 - Cardinality(InWindow(holeCards, communityCards, high)) = 1}

MissingRank(holeCards, communityCards, high) ==
    CHOOSE r \in (high - 4)..high : r \notin InWindow(holeCards, communityCards, high)

detectStraightDraws(holeCards, communityCards) ==
    LET edge == \E high \in OneGapWindows(holeCards, communityCards) :
                    MissingRank(holeCards, communityCards, high) \in {high - 4, high}
        inner == \E high \in OneGapWindows(holeCards, communityCards) :
                    MissingRank(holeCards, communityCards, high) \notin {high - 4, high}
        twoGaps == \E high \in 5..14 :
                    /\ HoleInWindow(holeCards, communityCards, high) # {}
                    /\ 5 - Cardinality(InWindow(holeCards, communityCards, high)) = 2
                    /\ Cardinality(communityCards) = 3
    IN [oesd |-> edge, gutshot |-> inner /\ ~edge, backdoor |-> twoGaps]

detectDraws(holeCards, communityCards) ==
    LET allCards == holeCards \cup communityCards
        count(suit) == Cardinality({c \in allCards : c.suit = suit})
        holeSuits == {c.suit : c \in holeCards}
        flushSuits == {s \in holeSuits : count(s) = 4 /\ Cardinality(communityCards) <= 4}
        backdoorSuits == {s \in holeSuits \ flushSuits :
                             count(s) = 3 /\ Cardinality(communityCards) = 3}
        straightInfo == detectStraightDraws(holeCards, communityCards)
        hasFlushDraw == flushSuits # {}
        flushOuts == 9 * Cardinality(flushSuits) + Cardinality(backdoorSuits)
        straightOuts == IF straightInfo.oesd THEN 8
                        ELSE IF straightInfo.gutshot THEN 4
                        ELSE IF straightInfo.backdoor THEN 1 ELSE 0
        overlap == IF hasFlushDraw /\ (straightInfo.oesd \/ straightInfo.gutshot)
                   THEN 2 ELSE 0
    IN IF Cardinality(communityCards) < 3
       THEN [hasFlushDraw |-> FALSE, hasNutFlushDraw |-> FALSE, hasOESD |-> FALSE,
             hasGutshot |-> FALSE, hasBackdoorFlush |-> FALSE,
             hasBackdoorStraight |-> FALSE, outs |-> 0]
       ELSE [hasFlushDraw |-> hasFlushDraw,
             hasNutFlushDraw |-> \E c \in holeCards : c.suit \in flushSuits /\ c.rank = 14,
             hasOESD |-> straightInfo.oesd,
             hasGutshot |-> straightInfo.gutshot,
             hasBackdoorFlush |-> backdoorSuits # {},
             hasBackdoorStraight |-> straightInfo.backdoor,
             outs |-> flushOuts + straightOuts - overlap]

DrawsInit ==
    /\ Constructed(<<>>)
    /\ \E holeCards \in SUBSET DrawDeck :
          /\ Cardinality(holeCards) = 2
          /\ \E communityCards \in SUBSET (DrawDeck \ holeCards) :
                /\ Cardinality(communityCards) = MaxBoard
                /\ Cardinality(RanksOf(holeCards \cup communityCards)) >= 4
                /\ fin = [holeCards |-> holeCards, communityCards |-> communityCards]
    /\ fout = <<>>
    /\ fpc = "in"

DetectDraws ==
    /\ fpc = "in"
    /\ fout' = detectDraws(fin.holeCards, fin.communityCards)
    /\ fpc' = "done"
    /\ UNCHANGED <<fin, engineVars>>

SpecDraws == DrawsInit /\ [][DetectDraws]_vars

\* ------------------------------------------------ C40: straight draws

\* the five ranks of the straight with the given high card, ace low in the wheel
StraightRanks(high) == {IF r = 1 THEN 14 ELSE r : r \in (high - 4)..high}

\* the missing ranks one card of which completes a straight that uses a hole card
CompletingRanks(holeCards, communityCards) ==
    LET ranks == RanksOf(holeCards \cup communityCards)
    IN {r \in (2..14) \ ranks :
           \E high \in 5..14 :
               /\ r \in StraightRanks(high)
               /\ StraightRanks(high) \subseteq ranks \cup {r}
               /\ StraightRanks(high) \cap RanksOf(holeCards) # {}}

\* C40: an open-ended straight draw (8 outs) is reported only when two
\* different missing ranks would each complete a straight; when exactly one
\* missing rank completes a straight, A-K-Q-J and A-2-3-4 included, a
\* gutshot (4 outs) is reported; with a flush draw the combined outs are
\* reduced by 2.
C40_StraightDrawOuts ==
    fpc = "done" =>
        LET completing == CompletingRanks(fin.holeCards, fin.communityCards)
            straightOuts == IF fout.hasOESD THEN 8 ELSE IF fout.hasGutshot THEN 4 ELSE 0
        IN /\ fout.hasOESD => Cardinality(completing) >= 2
           /\ Cardinality(completing) = 1 => fout.hasGutshot /\ ~fout.hasOESD
           /\ (fout.hasFlushDraw /\ straightOuts > 0) => fout.outs = 9 + straightOuts - 2
           /\ (~fout.hasFlushDraw /\ ~fout.hasBackdoorFlush /\ straightOuts > 0) =>
                  fout.outs = straightOuts

\* ------------------------------------------ postflop engine: street history

\* a hand played with the action log kept
MaxLogStack == 17

LogStackChoices == {6, MaxLogStack}

\* answers in whole big blinds, up to a re-raise over a raise
LogAmounts == {0, BIG_BLIND, 2 * BIG_BLIND, 3 * BIG_BLIND}

LoggedInit ==
    /\ \E n \in 2..MaxPlayers : \E stacks \in [0..(n - 1) -> LogStackChoices] :
           Constructed(stacks)
    /\ fin = <<>>
    /\ fout = <<>>
    /\ fpc = "log"

LoggedAnswer == Answer(ActionTypes, LogAmounts)

LoggedNext ==
    StartGame \/ StartGameAgain \/ GameLoop(MaxHands) \/ EngineStep \/ LoggedAnswer

SpecLogged == LoggedInit /\ [][LoggedNext]_vars

\* the switch over one log entry: the player's street bet after it
StreetBetAfter(entry, prevBet) ==
    LET amount == Max(entry.amount, 0) IN
    CASE entry.action \in {"CALL", "BET", "ALL_IN"} -> prevBet + amount
      [] entry.action = "RAISE" -> Max(amount, prevBet)
      [] OTHER -> prevBet

RECURSIVE StreetBetsFrom(_, _)
StreetBetsFrom(streetEntries, playerStreetBets) ==
    IF streetEntries = <<>> THEN playerStreetBets
    ELSE LET entry == Head(streetEntries)
             prevBet == IF entry.playerId \in DOMAIN playerStreetBets
                        THEN playerStreetBets[entry.playerId] ELSE 0
             touched == entry.action \in {"CALL", "BET", "RAISE", "ALL_IN"}
             next == IF touched
                     THEN [id \in DOMAIN playerStreetBets \cup {entry.playerId} |->
                              IF id = entry.playerId THEN StreetBetAfter(entry, prevBet)
                              ELSE playerStreetBets[id]]
                     ELSE playerStreetBets
         IN StreetBetsFrom(Tail(streetEntries), next)

\* the entries of every phase of the hand taken for the street's
buildStreetHistoryContextWholeHand(gameState, actionLog) ==
    LET handEntries == SelectSeq(actionLog, LAMBDA e : e.handNumber = gameState.handNumber)
        playerStreetBets == StreetBetsFrom(handEntries, <<>>)
    IN [streetContribution |-> SumOver(playerStreetBets, DOMAIN playerStreetBets),
        playerStreetBets |-> playerStreetBets]

\* buildStreetHistoryContext: the street bets rebuilt from the log (an empty
\* map stands for no entry of any player)
buildStreetHistoryContext(gameState, actionLog) ==
    IF gameState.phase \notin {"FLOP", "TURN", "RIVER"}
    THEN [streetContribution |-> 0, playerStreetBets |-> <<>>]
    ELSE LET streetEntries ==
                 SelectSeq(actionLog, LAMBDA e : /\ e.handNumber = gameState.handNumber
                                                 /\ e.phase = gameState.phase)
             playerStreetBets == StreetBetsFrom(streetEntries, <<>>)
         IN [streetContribution |-> SumOver(playerStreetBets, DOMAIN playerStreetBets),
             playerStreetBets |-> playerStreetBets]

getTotalPot(gameState) ==
    LET fromPots == PotTotal(gameState.pots) IN
    IF fromPots > 0 THEN fromPots
    ELSE Max(TotalWagered(gameState.players), BIG_BLIND)

\* trySolverAction's startingPot
StartingPot(gameState, actionLog) ==
    Max(getTotalPot(gameState)
            - buildStreetHistoryContext(gameState, actionLog).streetContribution,
        BIG_BLIND)

\* ------------------------------------------ C37: the log and the street bets

\* playerStreetBets.get(id) || 0
StreetBet(gameState, actionLog, id) ==
    LET bets == buildStreetHistoryContext(gameState, actionLog).playerStreetBets
    IN IF id \in DOMAIN bets THEN bets[id] ELSE 0

AskedPostflop ==
    /\ fpc = "log"
    /\ pc = "await"
    /\ state.phase \in {"FLOP", "TURN", "RIVER"}

\* chips wagered in the hand before the street being played
PotAtStreetStart(st) ==
    SumOver([i \in Seats(st.players) |->
                st.players[i].totalBetThisHand - st.players[i].currentBet],
            Seats(st.players))

====
